---- MODULE Spec2Model ----
(***************************************************************************)
(* Model of the drawing-analysis pipeline (src/drawing): the orchestrator  *)
(* analyze_drawing as a state machine over its stages, and the pure        *)
(* stages (quality gates, 3D reconstruction, quantity takeoff, page        *)
(* rotation transforms) as operators applied by small specifications       *)
(* whose initial states enumerate bounded inputs.                          *)
(*                                                                         *)
(* Optional values (Python's `X | None`) are sequences of length <= 1:     *)
(* None is <<>>, a present value v is <<v>>.                               *)
(*                                                                         *)
(* Lengths and 3D coordinates are integers counted in tenths of a          *)
(* millimetre (Unit per mm), the resolution of round(x, 1) in              *)
(* reconstruction._make_member; inputs are whole millimetres.              *)
(***************************************************************************)
EXTENDS Integers, Sequences, FiniteSets, TLC

VARIABLES pc, doc, handle, raised, views, grid, dimensions, heights,
          quality, matching, structural_model, quantity_takeoff,
          catalog_map, leader, xf

vars == <<pc, doc, handle, raised, views, grid, dimensions, heights,
          quality, matching, structural_model, quantity_takeoff,
          catalog_map, leader, xf>>

\* ------------------------------------------------------------------------
\* Generic helpers
\* ------------------------------------------------------------------------

None == <<>>

Some(v) == <<v>>

Val(o) == o[1]

SeqUpTo(S, n) == UNION {[1..k -> S] : k \in 0..n}

Count(s, P(_)) == Cardinality({i \in 1..Len(s) : P(s[i])})

RECURSIVE SumSeq(_)
SumSeq(s) == IF s = <<>> THEN 0 ELSE s[1] + SumSeq(Tail(s))

\* ------------------------------------------------------------------------
\* models.py enumerations
\* ------------------------------------------------------------------------

ViewType == {"ROOF_PLAN", "FLOOR_PLAN", "ELEVATION", "SECTION", "UNKNOWN"}

HeightType == {"EAVE_HEIGHT", "MAX_HEIGHT", "GL", "FL", "DESIGN_GL"}

GateStatus == {"PASS", "WARN", "FAIL"}

MemberType == {"COLUMN", "RAFTER", "RIDGE_BEAM", "PURLIN"}

\* ------------------------------------------------------------------------
\* Step F: quality gates (quality.py)
\*   views      : sequence of [view_type]
\*   grid       : optional [x_labels, y_labels], a label being
\*                [position, line] with line TRUE when a grid line was
\*                associated (GridLabel.line is not None)
\*   dimensions : sequence of Dimension records (only its length is read)
\*   heights    : sequence of [height_type, value]
\* ------------------------------------------------------------------------

_check_views_detected(vs) ==
  LET named == Count(vs, LAMBDA v : v.view_type # "UNKNOWN")
  IN [name |-> "Views detected",
      status |-> IF named >= 2 THEN "PASS"
                 ELSE IF named = 1 THEN "WARN" ELSE "FAIL"]

\* name: "Floor plan (平面図)", kept here without its Japanese suffix
_check_floor_plan_present(vs) ==
  [name |-> "Floor plan",
   status |-> IF \E i \in 1..Len(vs) : vs[i].view_type = "FLOOR_PLAN"
              THEN "PASS" ELSE "FAIL"]

_check_grid_labels(g) ==
  [name |-> "Grid labels",
   status |-> IF g = None THEN "FAIL"
              ELSE IF Len(Val(g).x_labels) >= 2 /\ Len(Val(g).y_labels) >= 1
                   THEN "PASS" ELSE "WARN"]

\* ratio = len(with_lines) / total >= 0.8, compared exactly as
\* 10 * len(with_lines) >= 8 * total
_check_grid_line_association(g) ==
  [name |-> "Grid line association",
   status |->
     IF g = None THEN "FAIL"
     ELSE LET all_labels == Val(g).x_labels \o Val(g).y_labels
              with_lines == Count(all_labels, LAMBDA l : l.line)
              total == Len(all_labels)
          IN IF total = 0 THEN "FAIL"
             ELSE IF 10 * with_lines >= 8 * total THEN "PASS" ELSE "WARN"]

_check_dimensions_found(ds) ==
  [name |-> "Dimensions found",
   status |-> IF Len(ds) >= 5 THEN "PASS"
              ELSE IF Len(ds) >= 1 THEN "WARN" ELSE "FAIL"]

_check_heights_found(hs) ==
  [name |-> "Heights found",
   status |-> IF Len(hs) >= 1 THEN "PASS" ELSE "FAIL"]

\* name: "Key heights (軒高 + 最高高さ)", kept here without its suffix
_check_key_heights(hs) ==
  LET has_eave == \E i \in 1..Len(hs) : hs[i].height_type = "EAVE_HEIGHT"
      has_max == \E i \in 1..Len(hs) : hs[i].height_type = "MAX_HEIGHT"
  IN [name |-> "Key heights",
      status |-> IF has_eave /\ has_max THEN "PASS"
                 ELSE IF has_eave \/ has_max THEN "WARN" ELSE "FAIL"]

WorstOf_no_warn(checks) ==
  IF \E i \in 1..Len(checks) : checks[i].status = "FAIL" THEN "FAIL"
  ELSE "PASS"

WorstOf(checks) ==
  IF \E i \in 1..Len(checks) : checks[i].status = "FAIL" THEN "FAIL"
  ELSE IF \E i \in 1..Len(checks) : checks[i].status = "WARN" THEN "WARN"
  ELSE "PASS"

run_quality_gates(vs, g, ds, hs) ==
  LET checks == << _check_views_detected(vs),
                   _check_floor_plan_present(vs),
                   _check_grid_labels(g),
                   _check_grid_line_association(g),
                   _check_dimensions_found(ds),
                   _check_heights_found(hs),
                   _check_key_heights(hs) >>
  IN [overall |-> WorstOf(checks), checks |-> checks]

\* ------------------------------------------------------------------------
\* Step 3: 3D reconstruction (reconstruction.py)
\*   matching : [span, length, eave_height, max_height, bay_pitch,
\*               bay_count], each optional, in whole millimetres
\*   Coordinates and lengths of the StructuralModel are in tenths of a mm.
\* ------------------------------------------------------------------------

Unit == 10

n_purlins_per_slope == 4

Sq(a) == a * a

RECURSIVE IsqrtIn(_, _, _)
IsqrtIn(n, lo, hi) ==
  IF lo >= hi THEN lo
  ELSE LET mid == (lo + hi + 1) \div 2
       IN IF mid * mid <= n THEN IsqrtIn(n, mid, hi) ELSE IsqrtIn(n, lo, mid - 1)

\* nearest integer to sqrt(n); (r + 1/2)^2 is never an integer, so no ties
RoundSqrt(n) ==
  LET r == IsqrtIn(n, 0, IF n < 46340 THEN n ELSE 46340)
  IN IF n - r * r > r THEN r + 1 ELSE r

Point3D(x, y, z) == [x |-> x, y |-> y, z |-> z]

_compute_length_3d(start, end) ==
  RoundSqrt(Sq(end.x - start.x) + Sq(end.y - start.y) + Sq(end.z - start.z))

_make_member(member_type, start, end, label, frame_index) ==
  [member_type |-> member_type, label |-> label, start |-> start,
   end |-> end, length |-> _compute_length_3d(start, end),
   frame_index |-> frame_index]

SortInts(s) == SortSeq(s, LAMBDA a, b : a < b)

\* (p - p_min) / (p_max - p_min) * span, in tenths of a mm
_build_y_positions(span, g) ==
  LET default == <<0, span * Unit>>
  IN IF g # None /\ Len(Val(g).y_labels) >= 3
     THEN LET ys == Val(g).y_labels
              positions == SortInts([i \in 1..Len(ys) |-> ys[i].position])
              p_min == positions[1]
              p_max == positions[Len(positions)]
          IN IF p_max - p_min > 0
             THEN [i \in 1..Len(positions) |->
                     ((positions[i] - p_min) * span * Unit) \div (p_max - p_min)]
             ELSE default
     ELSE default

\* columns (one per Y position) then the two rafters of frame frame_idx
_generate_frame_members_ridge(xi, frame_idx, y_positions, z_eave, z_ridge, span) ==
  LET y_ridge == (span * Unit) \div 2
  IN [j \in 1..Len(y_positions) |->
        _make_member("COLUMN",
                     Point3D(xi, y_positions[j], 0),
                     Point3D(xi, y_positions[j], z_ridge),
                     <<"C", frame_idx, j>>, Some(frame_idx))]
     \o << _make_member("RAFTER",
                        Point3D(xi, y_positions[1], z_eave),
                        Point3D(xi, y_ridge, z_ridge),
                        <<"R", frame_idx, "L">>, Some(frame_idx)),
           _make_member("RAFTER",
                        Point3D(xi, y_ridge, z_ridge),
                        Point3D(xi, y_positions[Len(y_positions)], z_eave),
                        <<"R", frame_idx, "R">>, Some(frame_idx)) >>

_generate_frame_members(xi, frame_idx, y_positions, z_eave, z_ridge, span) ==
  LET y_ridge == (span * Unit) \div 2
  IN [j \in 1..Len(y_positions) |->
        _make_member("COLUMN",
                     Point3D(xi, y_positions[j], 0),
                     Point3D(xi, y_positions[j], z_eave),
                     <<"C", frame_idx, j>>, Some(frame_idx))]
     \o << _make_member("RAFTER",
                        Point3D(xi, y_positions[1], z_eave),
                        Point3D(xi, y_ridge, z_ridge),
                        <<"R", frame_idx, "L">>, Some(frame_idx)),
           _make_member("RAFTER",
                        Point3D(xi, y_ridge, z_ridge),
                        Point3D(xi, y_positions[Len(y_positions)], z_eave),
                        <<"R", frame_idx, "R">>, Some(frame_idx)) >>

\* the 2 * n_purlins_per_slope purlins of bay bay_idx (0-based)
PurlinsOfBay(bay_idx, x_positions, y_positions, z_eave, z_ridge, span) ==
  LET y_ridge == (span * Unit) \div 2
      y_left == y_positions[1]
      y_right == y_positions[Len(y_positions)]
      x_start == x_positions[bay_idx + 1]
      x_end == x_positions[bay_idx + 2]
      d == n_purlins_per_slope + 1
  IN [k \in 1..n_purlins_per_slope |->
        LET y_p == y_left + (k * (y_ridge - y_left)) \div d
            z_p == z_eave + (k * (z_ridge - z_eave)) \div d
        IN _make_member("PURLIN", Point3D(x_start, y_p, z_p),
                        Point3D(x_end, y_p, z_p),
                        <<"P", bay_idx, "L", k>>, None)]
     \o
     [k \in 1..n_purlins_per_slope |->
        LET y_p == y_ridge + (k * (y_right - y_ridge)) \div d
            z_p == z_ridge + (k * (z_eave - z_ridge)) \div d
        IN _make_member("PURLIN", Point3D(x_start, y_p, z_p),
                        Point3D(x_end, y_p, z_p),
                        <<"P", bay_idx, "R", k>>, None)]

RECURSIVE ConcatTo(_, _)
\* f(0) \o f(1) \o ... \o f(n - 1)
ConcatTo(f(_), n) == IF n <= 0 THEN <<>> ELSE ConcatTo(f, n - 1) \o f(n - 1)

_generate_purlins_skip(x_positions, y_positions, z_eave, z_ridge, span) ==
  ConcatTo(LAMBDA b : PurlinsOfBay(b, x_positions, y_positions,
                                   z_eave, z_ridge, span),
           Len(x_positions) - 2)

_generate_purlins(x_positions, y_positions, z_eave, z_ridge, span) ==
  ConcatTo(LAMBDA b : PurlinsOfBay(b, x_positions, y_positions,
                                   z_eave, z_ridge, span),
           Len(x_positions) - 1)

\* dict(Counter(m.member_type for m in members)): only the types present
MemberSummary(members) ==
  LET present == {members[i].member_type : i \in 1..Len(members)}
  IN [t \in present |-> Count(members, LAMBDA m : m.member_type = t)]

RequiredMissing_truthy(m) ==
  \E v \in {m.span, m.eave_height, m.max_height, m.bay_pitch, m.bay_count} :
     v = None \/ Val(v) = 0

\* any(v is None for v in (span, eave, ridge, pitch, bay_count))
RequiredMissing(m) ==
  \E v \in {m.span, m.eave_height, m.max_height, m.bay_pitch, m.bay_count} :
     v = None

LengthOrDefault_always_derived(m) == Val(m.bay_pitch) * Val(m.bay_count)

\* length = matching.length; if length is None: length = pitch * bay_count
LengthOrDefault(m) ==
  IF m.length = None THEN Val(m.bay_pitch) * Val(m.bay_count)
  ELSE Val(m.length)

reconstruct_3d(m, g) ==
  IF RequiredMissing(m) THEN None
  ELSE
    LET span == Val(m.span)
        pitch == Val(m.bay_pitch)
        bay_count == Val(m.bay_count)
        length == LengthOrDefault(m)
        x_positions == [i \in 1..(bay_count + 1) |-> (i - 1) * pitch * Unit]
        y_positions == _build_y_positions(span, g)
        z_eave == Val(m.eave_height) * Unit
        z_ridge == Val(m.max_height) * Unit
        y_ridge == (span * Unit) \div 2
        frames == ConcatTo(LAMBDA i : _generate_frame_members(
                              x_positions[i + 1], i, y_positions,
                              z_eave, z_ridge, span),
                           Len(x_positions))
        ridge == _make_member("RIDGE_BEAM",
                              Point3D(0, y_ridge, z_ridge),
                              Point3D(length * Unit, y_ridge, z_ridge),
                              <<"RB">>, None)
        members == frames \o <<ridge>>
                   \o _generate_purlins(x_positions, y_positions,
                                        z_eave, z_ridge, span)
    IN Some([members |-> members,
             envelope |-> [length |-> length * Unit, span |-> span * Unit,
                           eave_height |-> z_eave, ridge_height |-> z_ridge],
             frame_count |-> bay_count + 1,
             bay_count |-> bay_count,
             bay_pitch |-> pitch * Unit,
             x_grid_positions |-> x_positions,
             y_grid_positions |-> y_positions,
             member_summary |-> MemberSummary(members)])

\* ------------------------------------------------------------------------
\* Step 4: quantity takeoff (quantity.py)
\* ------------------------------------------------------------------------

tolerance == 10

_TYPE_ORDER(t) ==
  CASE t = "COLUMN" -> 0 [] t = "RAFTER" -> 1 [] t = "RIDGE_BEAM" -> 2
    [] t = "PURLIN" -> 3 [] OTHER -> 99

\* Python round(): to the nearest integer, ties to the even one
RoundHalfEven(num, den) ==
  LET q == num \div den
      r == num % den
  IN IF 2 * r < den THEN q
     ELSE IF 2 * r > den THEN q + 1
     ELSE IF q % 2 = 0 THEN q ELSE q + 1

\* round(value / tolerance) * tolerance, value and result in tenths of a mm
_round_to(value, tol) == RoundHalfEven(value, tol * Unit) * tol * Unit

BucketKey(member, tol) == <<member.member_type, _round_to(member.length, tol)>>

Dedup_identity(s) == s

\* the distinct elements of s in order of first occurrence (dict key order)
Dedup(s) ==
  LET firsts == SelectSeq([i \in 1..Len(s) |-> i],
                          LAMBDA i : \A j \in 1..(i - 1) : s[j] # s[i])
  IN [k \in 1..Len(firsts) |-> s[firsts[k]]]

compute_quantity_takeoff(model, tol) ==
  LET members == model.members
      keys == Dedup([i \in 1..Len(members) |-> BucketKey(members[i], tol)])
      group(key) ==
        LET labels == SelectSeq([i \in 1..Len(members) |->
                                   <<BucketKey(members[i], tol), members[i].label>>],
                                LAMBDA e : e[1] = key)
            count == Len(labels)
        IN [member_type |-> key[1], unit_length |-> key[2], count |-> count,
            total_length |-> key[2] * count,
            member_labels |-> [i \in 1..count |-> labels[i][2]]]
      unsorted == [i \in 1..Len(keys) |-> group(keys[i])]
      groups == SortSeq(unsorted, LAMBDA a, b :
                   \/ _TYPE_ORDER(a.member_type) < _TYPE_ORDER(b.member_type)
                   \/ /\ _TYPE_ORDER(a.member_type) = _TYPE_ORDER(b.member_type)
                      /\ a.unit_length > b.unit_length)
  IN [groups |-> groups,
      total_members |-> SumSeq([i \in 1..Len(groups) |-> groups[i].count]),
      total_length |-> SumSeq([i \in 1..Len(groups) |-> groups[i].total_length]),
      group_tolerance |-> tol]

\* ------------------------------------------------------------------------
\* Step B coordinate transforms, mediabox <-> visual (views.py)
\*   Coordinates are Python floats: every subtraction yields the nearest
\*   representable number, ties to the even significand.  The model keeps
\*   that arithmetic at a reduced width: a significand of SignificandBits
\*   bits, scaled so that every representable number is a natural.  The
\*   naturals below 2^SignificandBits are all representable.
\* ------------------------------------------------------------------------

SignificandBits == 10

MaxExp == 2

\* exponent e of the binade of x >= 0: the representable numbers around x
\* are the multiples of 2^e
Binade(x) ==
  IF x < 2^SignificandBits THEN 0
  ELSE CHOOSE e \in 1..(MaxExp + 1) :
         2^(SignificandBits + e - 1) <= x /\ x < 2^(SignificandBits + e)

Representable(x) == x % (2^Binade(x)) = 0

\* x rounded to the nearest multiple of u, ties to the even multiple
RoundToMultiple(x, u) ==
  IF 2 * (x % u) < u THEN (x \div u) * u
  ELSE IF 2 * (x % u) > u THEN ((x \div u) + 1) * u
  ELSE IF (x \div u) % 2 = 0 THEN (x \div u) * u ELSE ((x \div u) + 1) * u

\* round-to-nearest-even of a real x >= 0
RoundNearestEven(x) == RoundToMultiple(x, 2^Binade(x))

\* floats of every binade up to MaxExp: the smallest and the largest
\* significand of each, and the small numbers 0 and 1
Floats ==
  {0, 1} \cup {m * 2^e : m \in {2^(SignificandBits - 1), 2^SignificandBits - 1},
                        e \in 0..MaxExp}

\* a - b on floats
FSub(a, b) ==
  IF a >= b THEN RoundNearestEven(a - b) ELSE 0 - RoundNearestEven(b - a)


_to_visual(mx, my, rot, mw, mh) ==
  IF rot = 270 THEN <<my, FSub(mw, mx)>>
  ELSE IF rot = 90 THEN <<FSub(mh, my), mx>>
  ELSE IF rot = 180 THEN <<FSub(mw, mx), FSub(mh, my)>>
  ELSE <<mx, my>>

_to_mediabox_mw(vx, vy, rot, mw, mh) ==
  IF rot = 270 THEN <<FSub(mw, vy), vx>>
  ELSE IF rot = 90 THEN <<vy, FSub(mw, vx)>>
  ELSE IF rot = 180 THEN <<FSub(mw, vx), FSub(mh, vy)>>
  ELSE <<vx, vy>>

_to_mediabox(vx, vy, rot, mw, mh) ==
  IF rot = 270 THEN <<FSub(mw, vy), vx>>
  ELSE IF rot = 90 THEN <<vy, FSub(mh, vx)>>
  ELSE IF rot = 180 THEN <<FSub(mw, vx), FSub(mh, vy)>>
  ELSE <<vx, vy>>

\* ------------------------------------------------------------------------
\* Step B: segment_views (views.py)
\*   page : [rot, mw, mh, titles, panels, texts]
\*     titles - the kept title spans (what _find_all_view_titles returns),
\*              each [view_type, center, bbox] in the mediabox frame
\*     panels - the info panels _detect_info_panels finds, visual frame
\*     texts  - the centres of the text spans of the page
\*   Points are <<x, y>>, rectangles <<x0, y0, x1, y1>> in the visual frame
\*   and BBox records in the mediabox frame.  Title centres are even
\*   naturals, so every midpoint is a natural.
\* ------------------------------------------------------------------------

_ROW_THRESHOLD == 60

_LABEL_PAD == 30

_INFO_PANEL_MARGIN == 20

Min(S) == CHOOSE x \in S : \A y \in S : x <= y

Max(S) == CHOOSE x \in S : \A y \in S : x >= y

AbsDiff(a, b) == IF a < b THEN b - a ELSE a - b

BBox(x0, y0, x1, y1) == [x0 |-> x0, y0 |-> y0, x1 |-> x1, y1 |-> y1]

\* BBox.contains: closed on all four sides
contains(b, p) ==
  b.x0 <= p[1] /\ p[1] <= b.x1 /\ b.y0 <= p[2] /\ p[2] <= b.y1

\* the bounding box of a set of points
BoundingBox(points) ==
  BBox(Min({c[1] : c \in points}), Min({c[2] : c \in points}),
       Max({c[1] : c \in points}), Max({c[2] : c \in points}))

_vis_rect_to_mediabox(vx0, vy0, vx1, vy1, rot, mw, mh) ==
  BoundingBox({_to_mediabox(vx0, vy0, rot, mw, mh),
               _to_mediabox(vx1, vy0, rot, mw, mh),
               _to_mediabox(vx0, vy1, rot, mw, mh),
               _to_mediabox(vx1, vy1, rot, mw, mh)})

\* sorted(..., key=key): stable, equal keys keep their order
SortedBy(seq, key(_)) ==
  LET order == SortSeq([k \in 1..Len(seq) |-> k],
                       LAMBDA a, b : \/ key(seq[a]) < key(seq[b])
                                     \/ key(seq[a]) = key(seq[b]) /\ a < b)
  IN [k \in 1..Len(seq) |-> seq[order[k]]]

RECURSIVE ClusterRows(_, _, _, _, _)
\* the row loop: a title joins the current row while its vis_y is within
\* _ROW_THRESHOLD of the row's first title
ClusterRows(vis_titles, rest, current_row, current_y, rows) ==
  IF rest = <<>> THEN Append(rows, current_row)
  ELSE LET idx == Head(rest)
           vy == vis_titles[idx][2]
       IN IF AbsDiff(vy, current_y) < _ROW_THRESHOLD
          THEN ClusterRows(vis_titles, Tail(rest), Append(current_row, idx),
                           current_y, rows)
          ELSE ClusterRows(vis_titles, Tail(rest), <<idx>>, vy,
                           Append(rows, current_row))

\* the rows of _build_visual_regions: title indices sorted by vis_y,
\* clustered, each row sorted by vis_x
RowsOf(vis_titles) ==
  LET indices_by_y == SortedBy([i \in 1..Len(vis_titles) |-> i],
                               LAMBDA i : vis_titles[i][2])
      clustered == ClusterRows(vis_titles, Tail(indices_by_y),
                               <<indices_by_y[1]>>,
                               vis_titles[indices_by_y[1]][2], <<>>)
  IN [r \in 1..Len(clustered) |->
        SortedBy(clustered[r], LAMBDA i : vis_titles[i][1])]

\* row boundaries and column edges of _build_visual_regions
RegionsOfRows(vis_titles, rows, vis_w, vis_h) ==
  LET bottom(r) == Max({vis_titles[rows[r][j]][2] : j \in 1..Len(rows[r])})
                   + _LABEL_PAD
      row_tops == [r \in 1..Len(rows) |-> IF r = 1 THEN 0 ELSE bottom(r - 1)]
      row_bottoms == [r \in 1..Len(rows) |->
                        IF r = Len(rows) THEN Min({bottom(r), vis_h})
                        ELSE bottom(r)]
      col_edges(r) ==
        [j \in 1..(Len(rows[r]) + 1) |->
           IF j = 1 THEN 0
           ELSE IF j = Len(rows[r]) + 1 THEN vis_w
           ELSE (vis_titles[rows[r][j - 1]][1] + vis_titles[rows[r][j]][1])
                  \div 2]
      row_of(i) == CHOOSE r \in 1..Len(rows) :
                     \E j \in 1..Len(rows[r]) : rows[r][j] = i
      col_of(i, r) == CHOOSE j \in 1..Len(rows[r]) : rows[r][j] = i
      rect(i, r, j) ==
        IF Len(rows[r]) = 1
        THEN <<0, row_tops[r], vis_w, row_bottoms[r]>>
        ELSE <<col_edges(r)[j], row_tops[r],
               col_edges(r)[j + 1], row_bottoms[r]>>
      rect_in_row(i, r) == rect(i, r, col_of(i, r))
  IN [i \in 1..Len(vis_titles) |-> rect_in_row(i, row_of(i))]

\* vis_titles : sequence of title centres <<vx, vy>>; result: one
\* rectangle per title
_build_visual_regions(vis_titles, vis_w, vis_h) ==
  IF Len(vis_titles) = 0 THEN <<>>
  ELSE RegionsOfRows(vis_titles, RowsOf(vis_titles), vis_w, vis_h)

\* clips the right edge to every panel right of the title centre that the
\* region overlaps vertically, never past the title centre
_clip_regions_against_panels(regions, vis_titles, panels) ==
  [i \in 1..Len(regions) |->
     LET reg == regions[i]
         title_vx == vis_titles[i][1]
         cuts == {panels[k][1] - _INFO_PANEL_MARGIN : k \in
                    {k \in 1..Len(panels) :
                       /\ panels[k][1] > title_vx
                       /\ ~(reg[2] >= panels[k][4] \/ reg[4] <= panels[k][2])
                       /\ panels[k][1] - _INFO_PANEL_MARGIN > title_vx}}
     IN <<reg[1], reg[2], Min({reg[3]} \cup cuts), reg[4]>>]

texts_in_bbox(texts, bbox) == {t \in texts : contains(bbox, t)}

\* the mediabox region clipped to the page
ClipToPage(mb, mw, mh) ==
  BBox(Max({mb.x0, 0}), Max({mb.y0, 0}), Min({mb.x1, mw}), Min({mb.y1, mh}))

\* the View built for one title and its region
ViewOf(title, region, texts) ==
  [view_type |-> title.view_type, title_bbox |-> title.bbox,
   region |-> region, texts |-> texts_in_bbox(texts, region)]

\* the loop over the titles once their visual regions are known
ViewsOfRegions(page, vis_regions) ==
  [i \in 1..Len(page.titles) |->
     ViewOf(page.titles[i],
            ClipToPage(_vis_rect_to_mediabox(
                         vis_regions[i][1], vis_regions[i][2],
                         vis_regions[i][3], vis_regions[i][4],
                         page.rot, page.mw, page.mh),
                       page.mw, page.mh),
            page.texts)]

\* the visual regions of the titles, clipped against the info panels
VisualRegions(vis_titles, vis_w, vis_h, panels) ==
  _clip_regions_against_panels(
    _build_visual_regions(vis_titles, vis_w, vis_h), vis_titles, panels)

segment_views(page) ==
  IF Len(page.titles) = 0
  THEN << [view_type |-> "UNKNOWN",
           title_bbox |-> BBox(0, 0, page.mw, page.mh),
           region |-> BBox(0, 0, page.mw, page.mh),
           texts |-> page.texts] >>
  ELSE ViewsOfRegions(
         page,
         VisualRegions(
           [i \in 1..Len(page.titles) |->
              _to_visual(page.titles[i].center[1], page.titles[i].center[2],
                         page.rot, page.mw, page.mh)],
           IF page.rot \in {90, 270} THEN page.mh ELSE page.mw,
           IF page.rot \in {90, 270} THEN page.mw ELSE page.mh,
           page.panels))

\* ------------------------------------------------------------------------
\* Step 2: cross-view matching (matching.py), entry point.
\*   geo stands for what the geometric strategies of _anchor_parameters
\*   derive from the dimensions and grid lines (span, length, bay_pitch,
\*   bay_count as optional values); the heights are copied as the code does.
\* ------------------------------------------------------------------------

\* _get_param over the height parameters: the first height of that type
\* that carries a value
FirstHeight(hs, htype) ==
  LET hits == SelectSeq(hs, LAMBDA h : h.height_type = htype /\ h.value # None)
  IN IF hits = <<>> THEN None ELSE hits[1].value

_anchor_parameters(g, ds, hs, geo) ==
  [span |-> geo.span, length |-> geo.length, bay_pitch |-> geo.bay_pitch,
   bay_count |-> geo.bay_count,
   eave_height |-> FirstHeight(hs, "EAVE_HEIGHT"),
   max_height |-> FirstHeight(hs, "MAX_HEIGHT")]

run_matching_always(vs, g, ds, hs, geo) ==
  LET a == _anchor_parameters(g, ds, hs, geo)
  IN Some([span |-> a.span, length |-> a.length, bay_pitch |-> a.bay_pitch,
           bay_count |-> IF a.bay_count # None /\ Val(a.bay_count) # 0
                         THEN a.bay_count ELSE None,
           eave_height |-> a.eave_height, max_height |-> a.max_height])

\* `if not grid: return None`; bay_count = int(f) if f else None
run_matching(vs, g, ds, hs, geo) ==
  IF g = None THEN None
  ELSE LET a == _anchor_parameters(g, ds, hs, geo)
       IN Some([span |-> a.span, length |-> a.length,
                bay_pitch |-> a.bay_pitch,
                bay_count |-> IF a.bay_count # None /\ Val(a.bay_count) # 0
                              THEN a.bay_count ELSE None,
                eave_height |-> a.eave_height, max_height |-> a.max_height])

\* ------------------------------------------------------------------------
\* Step 5: leader tracing (koyafuse.py, axial_frame.py) and the weight
\* assignment of analyzer.py.
\*   A leader page of the document is [found, fill, bbox, members]:
\*     found   - a page with the view's title exists (page finder)
\*     fill    - the page's drawings hold a line item of a path whose
\*               "width" is None (path.get("width", 1.0) returns None)
\*     bbox    - the views of the page whose drawing bbox is found
\*     members - the labels detected inside the drawing area, each
\*               [member_number, orientation, tip_count, line_count]
\* ------------------------------------------------------------------------

LeaderViews == {"koyafuse", "axial_frame", "axial_frame_y2",
                "axial_frame_x1", "axial_frame_xn1", "axial_frame_x2xn"}

CatalogNumbers == {"1", "2", "3", "4", "5", "6", "7", "8", "9", "10", "11", "12"}

TrussNumbers == {"1", "7", "11", "12"}

Detected(m) ==
  [member_number |-> m.member_number, orientation |-> m.orientation,
   tip_count |-> m.tip_count, line_count |-> m.line_count,
   unit_length |-> None, total_length |-> None, section_text |-> None,
   member_kind |-> "", unit_weight |-> None, total_weight |-> None]

LeaderResult(page, has_bbox) ==
  [drawing_bbox |-> has_bbox,
   detected_members |-> [i \in 1..Len(page.members) |-> Detected(page.members[i])]]

\* detect_koyafuse_members: "raise" stands for the TypeError of
\* abs(lw - 0.30) / abs(lw - 0.42) on a line whose width is None
detect_koyafuse_members(d) ==
  IF d.page_count < 2 \/ ~d.kf.found THEN [raise |-> FALSE, result |-> None]
  ELSE IF d.kf.fill /\ (d.kf.members # <<>> \/ "koyafuse" \in d.kf.bbox)
       THEN [raise |-> TRUE, result |-> None]
       ELSE [raise |-> FALSE,
             result |-> Some(LeaderResult(d.kf, "koyafuse" \in d.kf.bbox))]

\* detect_axial_frame_members / _y2 / _x1 / _xn1 / _x2xn with _detect_for_bbox
detect_axial_frame(d, view) ==
  LET page == IF view \in {"axial_frame", "axial_frame_y2"} THEN d.ay ELSE d.ax
  IN IF d.page_count < 3 \/ ~page.found THEN [raise |-> FALSE, result |-> None]
     ELSE IF view \notin page.bbox THEN [raise |-> FALSE, result |-> None]
     ELSE IF page.fill THEN [raise |-> TRUE, result |-> None]
     ELSE [raise |-> FALSE, result |-> Some(LeaderResult(page, TRUE))]

Truthy(o) == o # None /\ Val(o) # 0

\* lengths from matching (analyzer.py 52-59 and 188-195)
AssignLength(m, mt) ==
  LET ul == IF mt = None THEN m.unit_length
            ELSE IF m.orientation = "x" /\ Truthy(Val(mt).length)
                 THEN Val(mt).length
            ELSE IF m.orientation = "y" /\ Truthy(Val(mt).span)
                 THEN Val(mt).span
            ELSE m.unit_length
      tl == IF mt # None /\ Truthy(ul) /\ m.line_count # 0
            THEN Some(m.line_count * Val(ul)) ELSE m.total_length
  IN [m EXCEPT !.unit_length = ul, !.total_length = tl]

\* weights from the catalog (analyzer.py 61-73 and 212-224); a weight is
\* kept symbolic: <<field of the catalog entry, member number>>
AssignWeight(m, cmap) ==
  IF m.member_number \notin cmap THEN m
  ELSE LET truss == m.member_number \in TrussNumbers
           uw == IF truss THEN <<"lattice_weight_per_m", m.member_number>>
                 ELSE <<"unit_weight", m.member_number>>
       IN [m EXCEPT !.section_text = Some(m.member_number),
                    !.member_kind = IF truss THEN "lattice" ELSE m.member_kind,
                    !.unit_weight = Some(uw),
                    !.total_weight = IF Truthy(m.total_length)
                                     THEN Some(<<Val(m.total_length), uw>>)
                                     ELSE m.total_weight]

_assign_lengths_and_weights(result, mt, cmap) ==
  [result EXCEPT !.detected_members =
     [i \in 1..Len(result.detected_members) |->
        AssignWeight(AssignLength(result.detected_members[i], mt), cmap)]]

\* ------------------------------------------------------------------------
\* Inputs of the pipeline: what the PDF backend and the extraction stages
\* (primitives, views, grids, dimensions, heights) yield for a document.
\* ------------------------------------------------------------------------

MaxPages == 3

OptOf(S) == {None} \cup {Some(v) : v \in S}

Label(p, l) == [position |-> p, line |-> l]

View(t) == [view_type |-> t]

Height(t, v) == [height_type |-> t, value |-> v]

Dim(v) == [value |-> v, dim_type |-> "SINGLE", repeat_count |-> None]

Rep(x, n) == [i \in 1..n |-> x]

NoPage == [found |-> FALSE, fill |-> FALSE, bbox |-> {}, members |-> <<>>]

LeaderMember == [member_number |-> "1", orientation |-> "y",
                 tip_count |-> 1, line_count |-> 2]

PurlinMember == [member_number |-> "4", orientation |-> "x",
                 tip_count |-> 3, line_count |-> 3]

PagesWith(viewset, memberlists) ==
  {NoPage} \cup
  [found : {TRUE}, fill : BOOLEAN, bbox : SUBSET viewset, members : memberlists]

KfPages == PagesWith({"koyafuse"}, {<<>>, <<LeaderMember>>})

AyPages == PagesWith({"axial_frame", "axial_frame_y2"}, {<<PurlinMember>>})

AxPages == PagesWith({"axial_frame_x1", "axial_frame_xn1", "axial_frame_x2xn"},
                     {<<LeaderMember>>})

GeoInputs == [span : OptOf({600}), length : OptOf({705}), bay_pitch : OptOf({400}),
              bay_count : OptOf({0, 2})]

GridInputs ==
  {None,
   Some([x_labels |-> <<Label(100, TRUE), Label(300, TRUE)>>,
         y_labels |-> <<Label(100, TRUE), Label(400, FALSE)>>]),
   Some([x_labels |-> <<Label(100, FALSE)>>,
         y_labels |-> <<Label(400, TRUE), Label(100, TRUE), Label(200, TRUE)>>])}

ViewInputs == {<<View("UNKNOWN")>>, <<View("FLOOR_PLAN")>>,
               <<View("FLOOR_PLAN"), View("ELEVATION")>>}

HeightInputs == {<<>>, <<Height("EAVE_HEIGHT", Some(300))>>,
                 <<Height("GL", None), Height("EAVE_HEIGHT", Some(300)),
                   Height("MAX_HEIGHT", Some(500))>>}

DimInputs == {<<>>, Rep(Dim(100), 5)}

FullGeo == [span |-> Some(600), length |-> Some(705), bay_pitch |-> Some(400),
            bay_count |-> Some(2)]

Document(valid, n, vs, g, ds, hs, geo, kf, ay, ax) ==
  [valid |-> valid, page_count |-> n, views |-> vs, grid |-> g,
   dimensions |-> ds, heights |-> hs, geo |-> geo,
   kf |-> kf, ay |-> ay, ax |-> ax]

\* not a PDF (fitz.open fails), and a PDF of zero pages
BadDocuments ==
  {Document(v, 0, <<>>, None, <<>>, <<>>, FullGeo, NoPage, NoPage, NoPage)
     : v \in BOOLEAN}

\* every first-page content, on a single-page document
PlanDocuments ==
  {Document(TRUE, 1, vs, g, ds, hs, geo, NoPage, NoPage, NoPage)
     : vs \in ViewInputs, g \in GridInputs, ds \in DimInputs,
       hs \in HeightInputs, geo \in GeoInputs}

\* every leader-page content, on a complete and on a grid-less first page;
\* the axial-frame detectors return early on fewer than 3 pages
LeaderDocumentsOf(n) ==
  {Document(TRUE, n, <<View("FLOOR_PLAN"), View("ELEVATION")>>, g,
            Rep(Dim(100), 5),
            <<Height("EAVE_HEIGHT", Some(300)), Height("MAX_HEIGHT", Some(500))>>,
            FullGeo, kf, ay, ax)
     : g \in GridInputs, kf \in KfPages,
       ay \in IF n >= 3 THEN AyPages ELSE {NoPage},
       ax \in IF n >= 3 THEN AxPages ELSE {NoPage}}

NoLeader == [v \in LeaderViews |-> None]

NoXf == <<>>

\* ------------------------------------------------------------------------
\* analyze_drawing (analyzer.py) as a state machine over its stages
\* ------------------------------------------------------------------------

Init ==
  /\ \/ doc \in BadDocuments
     \/ doc \in PlanDocuments
     \/ \E n \in 2..MaxPages : doc \in LeaderDocumentsOf(n)
  /\ pc = "start"
  /\ handle = "none"
  /\ raised = ""
  /\ views = <<>>
  /\ grid = None
  /\ dimensions = <<>>
  /\ heights = <<>>
  /\ quality = None
  /\ matching = None
  /\ structural_model = None
  /\ quantity_takeoff = None
  /\ catalog_map = {}
  /\ leader = NoLeader
  /\ xf = NoXf

outputs == <<views, grid, dimensions, heights, quality, matching,
             structural_model, quantity_takeoff, catalog_map, leader>>

\* doc = fitz.open(stream=pdf_bytes, filetype="pdf")
Open ==
  /\ pc = "start"
  /\ IF doc.valid
     THEN handle' = "open" /\ pc' = "page0" /\ raised' = raised
     ELSE handle' = handle /\ pc' = "raised" /\ raised' = "open"
  /\ UNCHANGED <<doc, outputs, xf>>

\* page_count = len(doc); page = doc[0]
FirstPage ==
  /\ pc = "page0"
  /\ IF doc.page_count >= 1
     THEN pc' = "render" /\ raised' = raised
     ELSE pc' = "raised" /\ raised' = "page0"
  /\ UNCHANGED <<doc, handle, outputs, xf>>

\* page and all-pages rasterisation, then Step A
RenderAndPrimitives ==
  /\ pc = "render"
  /\ pc' = "views"
  /\ UNCHANGED <<doc, handle, raised, outputs, xf>>

AnalyzeViews ==
  /\ pc = "views"
  /\ views' = doc.views
  /\ pc' = "grids"
  /\ UNCHANGED <<doc, handle, raised, grid, dimensions, heights, quality,
                 matching, structural_model, quantity_takeoff, catalog_map,
                 leader, xf>>

AnalyzeGrids ==
  /\ pc = "grids"
  /\ grid' = doc.grid
  /\ pc' = "dimensions"
  /\ UNCHANGED <<doc, handle, raised, views, dimensions, heights, quality,
                 matching, structural_model, quantity_takeoff, catalog_map,
                 leader, xf>>

AnalyzeDimensions ==
  /\ pc = "dimensions"
  /\ dimensions' = doc.dimensions
  /\ pc' = "heights"
  /\ UNCHANGED <<doc, handle, raised, views, grid, heights, quality,
                 matching, structural_model, quantity_takeoff, catalog_map,
                 leader, xf>>

AnalyzeHeights ==
  /\ pc = "heights"
  /\ heights' = doc.heights
  /\ pc' = "quality"
  /\ UNCHANGED <<doc, handle, raised, views, grid, dimensions, quality,
                 matching, structural_model, quantity_takeoff, catalog_map,
                 leader, xf>>

AnalyzeQuality_blocking ==
  /\ pc = "quality"
  /\ quality' = Some(run_quality_gates(views, grid, dimensions, heights))
  /\ IF Val(quality').overall = "FAIL"
     THEN pc' = "raised" /\ raised' = "quality"
     ELSE pc' = "matching" /\ raised' = raised
  /\ UNCHANGED <<doc, handle, views, grid, dimensions, heights,
                 matching, structural_model, quantity_takeoff, catalog_map,
                 leader, xf>>

\* quality = run_quality_gates(views, grid, dimensions, heights)
AnalyzeQuality ==
  /\ pc = "quality"
  /\ quality' = Some(run_quality_gates(views, grid, dimensions, heights))
  /\ pc' = "matching"
  /\ UNCHANGED <<doc, handle, raised, views, grid, dimensions, heights,
                 matching, structural_model, quantity_takeoff, catalog_map,
                 leader, xf>>

AnalyzeMatching ==
  /\ pc = "matching"
  /\ matching' = run_matching(views, grid, dimensions, heights, doc.geo)
  /\ pc' = "reconstruction"
  /\ UNCHANGED <<doc, handle, raised, views, grid, dimensions, heights,
                 quality, structural_model, quantity_takeoff, catalog_map,
                 leader, xf>>

\* structural_model = None; if matching: structural_model = reconstruct_3d(..)
AnalyzeReconstruction ==
  /\ pc = "reconstruction"
  /\ structural_model' = IF matching # None
                         THEN reconstruct_3d(Val(matching), grid) ELSE None
  /\ pc' = "takeoff"
  /\ UNCHANGED <<doc, handle, raised, views, grid, dimensions, heights,
                 quality, matching, quantity_takeoff, catalog_map, leader, xf>>

\* quantity_takeoff = None; if structural_model: compute_quantity_takeoff(..)
AnalyzeTakeoff ==
  /\ pc = "takeoff"
  /\ quantity_takeoff' =
       IF structural_model # None
       THEN Some(compute_quantity_takeoff(Val(structural_model), tolerance))
       ELSE None
  /\ pc' = "koyafuse"
  /\ UNCHANGED <<doc, handle, raised, views, grid, dimensions, heights,
                 quality, matching, structural_model, catalog_map, leader, xf>>

\* Step 5: the catalog map is built inside `if koyafuse:`
AnalyzeKoyafuse ==
  /\ pc = "koyafuse"
  /\ LET r == detect_koyafuse_members(doc)
     IN IF r.raise
        THEN /\ pc' = "raised"
             /\ raised' = "koyafuse"
             /\ UNCHANGED <<catalog_map, leader>>
        ELSE /\ pc' = "axial_frame"
             /\ raised' = raised
             /\ IF r.result = None
                THEN UNCHANGED <<catalog_map, leader>>
                ELSE /\ catalog_map' = CatalogNumbers
                     /\ leader' = [leader EXCEPT !["koyafuse"] =
                          Some(_assign_lengths_and_weights(
                                 Val(r.result), matching, CatalogNumbers))]
  /\ UNCHANGED <<doc, handle, views, grid, dimensions, heights, quality,
                 matching, structural_model, quantity_takeoff, xf>>

NextStage(view) ==
  CASE view = "axial_frame" -> "axial_frame_y2"
    [] view = "axial_frame_y2" -> "axial_frame_x1"
    [] view = "axial_frame_x1" -> "axial_frame_xn1"
    [] view = "axial_frame_xn1" -> "axial_frame_x2xn"
    [] view = "axial_frame_x2xn" -> "close"

\* Steps 5b-5f: detect, crop, assign lengths and weights
AnalyzeAxial(view) ==
  /\ pc = view
  /\ LET r == detect_axial_frame(doc, view)
     IN IF r.raise
        THEN pc' = "raised" /\ raised' = view /\ leader' = leader
        ELSE /\ pc' = NextStage(view)
             /\ raised' = raised
             /\ leader' = IF r.result = None THEN leader
                          ELSE [leader EXCEPT ![view] =
                                  Some(_assign_lengths_and_weights(
                                         Val(r.result), matching, catalog_map))]
  /\ UNCHANGED <<doc, handle, views, grid, dimensions, heights, quality,
                 matching, structural_model, quantity_takeoff, catalog_map, xf>>

AnalyzeAxialY1 == AnalyzeAxial("axial_frame")

AnalyzeAxialY2 == AnalyzeAxial("axial_frame_y2")

AnalyzeAxialX1 == AnalyzeAxial("axial_frame_x1")

AnalyzeAxialXn1 == AnalyzeAxial("axial_frame_xn1")

AnalyzeAxialX2xn == AnalyzeAxial("axial_frame_x2xn")

\* doc.close()
Close ==
  /\ pc = "close"
  /\ handle' = "closed"
  /\ pc' = "assemble"
  /\ UNCHANGED <<doc, raised, outputs, xf>>

\* return AnalysisResult(...)
Return ==
  /\ pc = "assemble"
  /\ pc' = "returned"
  /\ UNCHANGED <<doc, handle, raised, outputs, xf>>

Next ==
  \/ Open
  \/ FirstPage
  \/ RenderAndPrimitives
  \/ AnalyzeViews
  \/ AnalyzeGrids
  \/ AnalyzeDimensions
  \/ AnalyzeHeights
  \/ AnalyzeQuality
  \/ AnalyzeMatching
  \/ AnalyzeReconstruction
  \/ AnalyzeTakeoff
  \/ AnalyzeKoyafuse
  \/ AnalyzeAxialY1
  \/ AnalyzeAxialY2
  \/ AnalyzeAxialX1
  \/ AnalyzeAxialXn1
  \/ AnalyzeAxialX2xn
  \/ Close
  \/ Return

Spec == Init /\ [][Next]_vars

\* ------------------------------------------------------------------------
\* run_quality_gates on bounded inputs
\* ------------------------------------------------------------------------

QMaxViews == 2

QMaxHeights == 2

QMaxXLabels == 3

QMaxYLabels == 2

MaxDims == 5

\* one view type per class the gates tell apart: unknown, floor plan, other
QViewInputs ==
  SeqUpTo({View(t) : t \in {"UNKNOWN", "FLOOR_PLAN", "ELEVATION"}}, QMaxViews)

QHeightInputs ==
  SeqUpTo({Height(t, None) : t \in {"EAVE_HEIGHT", "MAX_HEIGHT", "GL"}},
          QMaxHeights)

\* n labels of which the first k carry a line; the gates only count them
LabelsWithLines(n, k) ==
  [i \in 1..n |-> Label(100, i <= k)]

QGridInputs ==
  {None} \cup
  {Some([x_labels |-> LabelsWithLines(nx, kx),
         y_labels |-> LabelsWithLines(ny, ky)]) :
     nx \in 0..QMaxXLabels, kx \in 0..QMaxXLabels,
     ny \in 0..QMaxYLabels, ky \in 0..QMaxYLabels}

QDimInputs == {Rep(Dim(100), n) : n \in 0..MaxDims}

InitQuality ==
  /\ pc = "q_call"
  /\ views \in QViewInputs
  /\ grid \in QGridInputs
  /\ dimensions \in QDimInputs
  /\ heights \in QHeightInputs
  /\ quality = None
  /\ doc = <<>>
  /\ handle = "none"
  /\ raised = ""
  /\ matching = None
  /\ structural_model = None
  /\ quantity_takeoff = None
  /\ catalog_map = {}
  /\ leader = NoLeader
  /\ xf = NoXf

RunQualityGates ==
  /\ pc = "q_call"
  /\ quality' = Some(run_quality_gates(views, grid, dimensions, heights))
  /\ pc' = "q_done"
  /\ UNCHANGED <<doc, handle, raised, views, grid, dimensions, heights,
                 matching, structural_model, quantity_takeoff, catalog_map,
                 leader, xf>>

NextQuality == RunQualityGates

SpecQuality == InitQuality /\ [][NextQuality]_vars

\* ------------------------------------------------------------------------
\* reconstruct_3d and compute_quantity_takeoff on bounded inputs
\* ------------------------------------------------------------------------

MaxBays == 3

MaxYLabels == 3

RMatchingInputs ==
  [span : OptOf({0, 600}), length : OptOf({705}), eave_height : OptOf({300}),
   max_height : OptOf({500}), bay_pitch : OptOf({400}),
   bay_count : OptOf(0..MaxBays)]

\* Y-label positions (pt) in any order, repeats included; with spans that
\* are multiples of 6 mm every proportional position is a whole tenth of a mm
RGridInputs ==
  {None} \cup
  {Some([x_labels |-> <<>>,
         y_labels |-> [i \in 1..Len(ps) |-> Label(ps[i], TRUE)]]) :
     ps \in SeqUpTo({100, 200, 400}, MaxYLabels)}

InitRecon ==
  /\ pc = "r_call"
  /\ matching \in {Some(m) : m \in RMatchingInputs}
  /\ grid \in RGridInputs
  /\ structural_model = None
  /\ quantity_takeoff = None
  /\ doc = <<>>
  /\ handle = "none"
  /\ raised = ""
  /\ views = <<>>
  /\ dimensions = <<>>
  /\ heights = <<>>
  /\ quality = None
  /\ catalog_map = {}
  /\ leader = NoLeader
  /\ xf = NoXf

Reconstruct ==
  /\ pc = "r_call"
  /\ structural_model' = reconstruct_3d(Val(matching), grid)
  /\ pc' = "r_done"
  /\ UNCHANGED <<doc, handle, raised, views, grid, dimensions, heights,
                 quality, matching, quantity_takeoff, catalog_map, leader, xf>>

Takeoff ==
  /\ pc = "r_done"
  /\ structural_model # None
  /\ quantity_takeoff' =
       Some(compute_quantity_takeoff(Val(structural_model), tolerance))
  /\ pc' = "t_done"
  /\ UNCHANGED <<doc, handle, raised, views, grid, dimensions, heights,
                 quality, matching, structural_model, catalog_map, leader, xf>>

NextRecon == Reconstruct \/ Takeoff

SpecRecon == InitRecon /\ [][NextRecon]_vars

\* ------------------------------------------------------------------------
\* mediabox <-> visual round trips on bounded pages
\*   xf = [rot, mw, mh, from, p, q, r]: p the point given in frame `from`,
\*   q its image in the other frame, r the image of q back in `from`
\* ------------------------------------------------------------------------

Rotations == {0, 90, 180, 270}

VisW(rot, mw, mh) == IF rot \in {90, 270} THEN mh ELSE mw

VisH(rot, mw, mh) == IF rot \in {90, 270} THEN mw ELSE mh

XfInputs ==
  {[rot |-> rot, mw |-> mw, mh |-> mh, from |-> f, p |-> <<x, y>>,
    q |-> None, r |-> None] :
     rot \in Rotations, mw \in Floats \ {0}, mh \in Floats \ {0},
     f \in {"mediabox", "visual"}, x \in Floats, y \in Floats}

OnPage(i) ==
  IF i.from = "mediabox"
  THEN i.p[1] <= i.mw /\ i.p[2] <= i.mh
  ELSE i.p[1] <= VisW(i.rot, i.mw, i.mh) /\ i.p[2] <= VisH(i.rot, i.mw, i.mh)

InitXform ==
  /\ pc = "xf_call"
  /\ xf \in {i \in XfInputs : OnPage(i)}
  /\ doc = <<>>
  /\ handle = "none"
  /\ raised = ""
  /\ views = <<>>
  /\ grid = None
  /\ dimensions = <<>>
  /\ heights = <<>>
  /\ quality = None
  /\ matching = None
  /\ structural_model = None
  /\ quantity_takeoff = None
  /\ catalog_map = {}
  /\ leader = NoLeader

Transform ==
  /\ pc = "xf_call"
  /\ xf' = [xf EXCEPT !.q =
              IF xf.from = "mediabox"
              THEN _to_visual(xf.p[1], xf.p[2], xf.rot, xf.mw, xf.mh)
              ELSE _to_mediabox(xf.p[1], xf.p[2], xf.rot, xf.mw, xf.mh)]
  /\ pc' = "xf_there"
  /\ UNCHANGED <<doc, handle, raised, outputs>>

TransformBack ==
  /\ pc = "xf_there"
  /\ xf' = [xf EXCEPT !.r =
              IF xf.from = "mediabox"
              THEN _to_mediabox(xf.q[1], xf.q[2], xf.rot, xf.mw, xf.mh)
              ELSE _to_visual(xf.q[1], xf.q[2], xf.rot, xf.mw, xf.mh)]
  /\ pc' = "xf_back"
  /\ UNCHANGED <<doc, handle, raised, outputs>>

NextXform == Transform \/ TransformBack

SpecXform == InitXform /\ [][NextXform]_vars

\* ------------------------------------------------------------------------
\* Properties of analyze_drawing (Spec)
\* ------------------------------------------------------------------------

Exited == pc \in {"returned", "raised"}

AfterQuality ==
  {"matching", "reconstruction", "takeoff", "koyafuse", "axial_frame",
   "axial_frame_y2", "axial_frame_x1", "axial_frame_xn1", "axial_frame_x2xn",
   "close", "assemble", "returned"}

\* C1: once analyze_drawing has exited, by returning or by raising, the
\* document handle it opened at entry is closed.
C1_HandleClosedOnEveryExit == Exited => handle # "open"

\* C2: analyze_drawing never exits with a failure that was raised inside a
\* leader-tracing step (小屋伏図 or one of the five 軸組図 detections).
C2_LeaderFailureNeverEscapes == ~(pc = "raised" /\ raised \in LeaderViews)

\* C3: in every returned result the takeoff is present iff the structural
\* model is, a structural model implies a matching result, matching is
\* present iff the grid system is; and the call never aborts in the grid,
\* matching, reconstruction or takeoff stage.
C3_OptionalOutputsChain ==
  /\ pc = "returned" =>
       /\ (quantity_takeoff # None) <=> (structural_model # None)
       /\ (structural_model # None) => (matching # None)
       /\ (matching # None) <=> (grid # None)
  /\ pc = "raised" =>
       raised \notin {"grids", "matching", "reconstruction", "takeoff"}

\* a result returned with a grid and a matching result but no model
C3_Witness ==
  /\ pc = "returned"
  /\ grid # None
  /\ matching # None
  /\ structural_model = None
  /\ quantity_takeoff = None

\* C4: the quality stage never raises; after it the stage inputs are still
\* the ones extracted from the document and the report is the one computed
\* from them; the returned matching, structural model and takeoff are the
\* ones these inputs determine, whatever the overall status.
C4_QualityNeverBlocks ==
  /\ ~(pc = "raised" /\ raised = "quality")
  /\ pc \in AfterQuality =>
       /\ quality = Some(run_quality_gates(doc.views, doc.grid,
                                           doc.dimensions, doc.heights))
       /\ <<views, grid, dimensions, heights>> =
            <<doc.views, doc.grid, doc.dimensions, doc.heights>>
  /\ pc = "returned" =>
       /\ matching = run_matching(doc.views, doc.grid, doc.dimensions,
                                  doc.heights, doc.geo)
       /\ structural_model =
            IF matching = None THEN None
            ELSE reconstruct_3d(Val(matching), doc.grid)
       /\ quantity_takeoff =
            IF structural_model = None THEN None
            ELSE Some(compute_quantity_takeoff(Val(structural_model),
                                               tolerance))

\* a full result returned together with a FAIL report
C4_Witness ==
  /\ pc = "returned"
  /\ quality # None
  /\ Val(quality).overall = "FAIL"
  /\ matching # None
  /\ structural_model # None
  /\ quantity_takeoff # None

\* ------------------------------------------------------------------------
\* Properties of run_quality_gates (SpecQuality)
\* ------------------------------------------------------------------------

CheckNames ==
  <<"Views detected", "Floor plan", "Grid labels",
    "Grid line association", "Dimensions found", "Heights found",
    "Key heights">>

\* the stated threshold of gate i, over the inputs of the call
GatePasses(i) ==
  LET named == {j \in 1..Len(views) : views[j].view_type # "UNKNOWN"}
      xs == IF grid = None THEN <<>> ELSE Val(grid).x_labels
      ys == IF grid = None THEN <<>> ELSE Val(grid).y_labels
      lined == Cardinality({j \in 1..Len(xs) : xs[j].line})
               + Cardinality({j \in 1..Len(ys) : ys[j].line})
      types == {heights[j].height_type : j \in 1..Len(heights)}
  IN CASE i = 1 -> Cardinality(named) >= 2
       [] i = 2 -> \E j \in 1..Len(views) : views[j].view_type = "FLOOR_PLAN"
       [] i = 3 -> grid # None /\ Len(xs) >= 2 /\ Len(ys) >= 1
       [] i = 4 -> /\ Len(xs) + Len(ys) > 0
                   /\ 100 * lined >= 80 * (Len(xs) + Len(ys))
       [] i = 5 -> Len(dimensions) >= 5
       [] i = 6 -> Len(heights) >= 1
       [] i = 7 -> {"EAVE_HEIGHT", "MAX_HEIGHT"} \subseteq types

\* C5: run_quality_gates returns exactly the seven checks, in order, each
\* with a status of PASS, WARN or FAIL that is PASS exactly when the gate's
\* threshold is met, and overall is the worst status: FAIL if any check is
\* FAIL, else WARN if any is WARN, else PASS.
C5_SevenChecksWorstOverall ==
  pc = "q_done" =>
    LET q == Val(quality)
        statuses == {q.checks[i].status : i \in 1..Len(q.checks)}
    IN /\ Len(q.checks) = 7
       /\ [i \in 1..7 |-> q.checks[i].name] = CheckNames
       /\ \A i \in 1..7 :
            /\ q.checks[i].status \in GateStatus
            /\ q.checks[i].status = "PASS" <=> GatePasses(i)
       /\ q.overall = IF "FAIL" \in statuses THEN "FAIL"
                      ELSE IF "WARN" \in statuses THEN "WARN"
                      ELSE "PASS"

\* a report that is WARN overall with the association gate passing at
\* exactly 4 of 5 labels
C5_Witness ==
  /\ pc = "q_done"
  /\ grid # None
  /\ Len(Val(grid).x_labels) + Len(Val(grid).y_labels) = 5
  /\ Val(quality).checks[4].status = "PASS"
  /\ \E i \in 1..Len(Val(grid).x_labels) : ~Val(grid).x_labels[i].line
  /\ Val(quality).overall = "WARN"

\* ------------------------------------------------------------------------
\* Properties of reconstruct_3d and compute_quantity_takeoff (SpecRecon)
\* ------------------------------------------------------------------------

Reconstructed == pc \in {"r_done", "t_done"} /\ structural_model # None

MembersOfType(t) ==
  LET ms == Val(structural_model).members
  IN {i \in 1..Len(ms) : ms[i].member_type = t}

\* C6: in every returned model each COLUMN runs from z = 0 to z = eave, each
\* RAFTER has both endpoints among (y_min, eave), (span/2, ridge) and
\* (y_max, eave) with y_min, y_max the first and last Y positions, and the
\* single RIDGE_BEAM runs on y = span/2, z = ridge from x = 0 to
\* x = envelope.length.
C6_StructuralModelInvariants ==
  Reconstructed =>
    LET sm == Val(structural_model)
        ms == sm.members
        eave == Val(Val(matching).eave_height) * Unit
        ridge == Val(Val(matching).max_height) * Unit
        half == (Val(Val(matching).span) * Unit) \div 2
        ys == sm.y_grid_positions
        ends == {<<ys[1], eave>>, <<half, ridge>>, <<ys[Len(ys)], eave>>}
    IN /\ \A i \in MembersOfType("COLUMN") :
            ms[i].start.z = 0 /\ ms[i].end.z = eave
       /\ \A i \in MembersOfType("RAFTER") :
            /\ <<ms[i].start.y, ms[i].start.z>> \in ends
            /\ <<ms[i].end.y, ms[i].end.z>> \in ends
       /\ Cardinality(MembersOfType("RIDGE_BEAM")) = 1
       /\ \A i \in MembersOfType("RIDGE_BEAM") :
            /\ ms[i].start = Point3D(0, half, ridge)
            /\ ms[i].end = Point3D(sm.envelope.length, half, ridge)

\* a model with frames, built on a grid of three distinct Y positions
C6_Witness ==
  /\ Reconstructed
  /\ grid # None
  /\ Val(structural_model).bay_count >= 1
  /\ Len(Val(structural_model).y_grid_positions) = 3
  /\ LET ys == Val(structural_model).y_grid_positions
     IN ys[1] < ys[2] /\ ys[2] < ys[3]

\* C7: for n >= 1 bays and m Y positions (m = 2 when the grid supplies fewer
\* than 3 Y labels) the model has n + 1 frames at x = i * pitch, m (n + 1)
\* COLUMNs, 2 (n + 1) RAFTERs, 1 RIDGE_BEAM and 8 n PURLINs, and
\* member_summary reports exactly these counts; for n = 3, m = 2 that is
\* 4 frames, 8 columns, 8 rafters, 1 ridge beam and 24 purlins.
C7_MemberCounts ==
  (Reconstructed /\ Val(Val(matching).bay_count) >= 1) =>
    LET sm == Val(structural_model)
        ms == sm.members
        n == Val(Val(matching).bay_count)
        pitch == Val(Val(matching).bay_pitch) * Unit
        m == Len(sm.y_grid_positions)
        N(t) == Cardinality(MembersOfType(t))
    IN /\ (grid = None \/ Len(Val(grid).y_labels) < 3) => m = 2
       /\ sm.frame_count = n + 1
       /\ sm.x_grid_positions = [i \in 1..(n + 1) |-> (i - 1) * pitch]
       /\ \A f \in 0..n :
            /\ Cardinality({i \in MembersOfType("COLUMN") :
                              /\ ms[i].frame_index = Some(f)
                              /\ ms[i].start.x = f * pitch
                              /\ ms[i].end.x = f * pitch}) = m
            /\ Cardinality({i \in MembersOfType("RAFTER") :
                              /\ ms[i].frame_index = Some(f)
                              /\ ms[i].start.x = f * pitch
                              /\ ms[i].end.x = f * pitch}) = 2
       /\ N("COLUMN") = m * (n + 1)
       /\ N("RAFTER") = 2 * (n + 1)
       /\ N("RIDGE_BEAM") = 1
       /\ N("PURLIN") = 8 * n
       /\ Len(ms) = m * (n + 1) + 2 * (n + 1) + 1 + 8 * n
       /\ DOMAIN sm.member_summary = MemberType
       /\ \A t \in MemberType : sm.member_summary[t] = N(t)
       /\ (n = 3 /\ m = 2) =>
            /\ sm.frame_count = 4
            /\ N("COLUMN") = 8 /\ N("RAFTER") = 8
            /\ N("RIDGE_BEAM") = 1 /\ N("PURLIN") = 24

\* the three-bay model with columns at the outer walls only
C7_Witness ==
  /\ Reconstructed
  /\ Val(structural_model).bay_count = 3
  /\ Len(Val(structural_model).y_grid_positions) = 2
  /\ Val(structural_model).member_summary["PURLIN"] = 24

\* C8: reconstruct_3d returns no model exactly when span, eave_height,
\* max_height, bay_pitch or bay_count is absent; an absent length does not
\* prevent reconstruction and then envelope.length = bay_pitch * bay_count.
C8_NoneIffRequiredAbsent ==
  pc \in {"r_done", "t_done"} =>
    LET m == Val(matching)
    IN /\ structural_model = None <=>
            \/ m.span = None
            \/ m.eave_height = None
            \/ m.max_height = None
            \/ m.bay_pitch = None
            \/ m.bay_count = None
       /\ (structural_model # None /\ m.length = None) =>
            Val(structural_model).envelope.length
              = Val(m.bay_pitch) * Val(m.bay_count) * Unit

\* a model reconstructed without a length
C8_Witness ==
  /\ Reconstructed
  /\ Val(matching).length = None
  /\ Val(structural_model).envelope.length > 0

\* C9: the group counts sum to total_members and to the number of members,
\* the group total lengths sum to total_length, every member label is
\* listed in exactly one group, each group has total_length = unit_length *
\* count, and no two groups share (member_type, unit_length).
C9_TakeoffTotals ==
  pc = "t_done" =>
    LET ms == Val(structural_model).members
        qt == Val(quantity_takeoff)
        gs == qt.groups
        Listings(l) == {<<g, k>> \in (1..Len(gs)) \X (1..Len(ms)) :
                          /\ k <= Len(gs[g].member_labels)
                          /\ gs[g].member_labels[k] = l}
    IN /\ SumSeq([g \in 1..Len(gs) |-> gs[g].count]) = qt.total_members
       /\ qt.total_members = Len(ms)
       /\ SumSeq([g \in 1..Len(gs) |-> gs[g].total_length]) = qt.total_length
       /\ \A i \in 1..Len(ms) : Cardinality(Listings(ms[i].label)) = 1
       /\ \A g \in 1..Len(gs) :
            /\ gs[g].total_length = gs[g].unit_length * gs[g].count
            /\ gs[g].count = Len(gs[g].member_labels)
       /\ \A g, h \in 1..Len(gs) :
            g # h => <<gs[g].member_type, gs[g].unit_length>>
                       # <<gs[h].member_type, gs[h].unit_length>>

\* a takeoff of a model with all four member types, several per group
C9_Witness ==
  /\ pc = "t_done"
  /\ Len(Val(quantity_takeoff).groups) = 4
  /\ \A g \in 1..4 : Val(quantity_takeoff).groups[g].total_length > 0
  /\ \E g \in 1..4 : Val(quantity_takeoff).groups[g].count >= 8

\* ------------------------------------------------------------------------
\* Properties of _to_visual / _to_mediabox (SpecXform)
\* ------------------------------------------------------------------------

Abs(x) == IF x < 0 THEN 0 - x ELSE x

\* spacing of the representable numbers at f
Ulp(f) == 2^Binade(f)

\* every difference page dimension - coordinate is representable
DifferencesExact ==
  \A d \in {xf.mw, xf.mh} : \A c \in {xf.p[1], xf.p[2]} :
     c <= d => Representable(d - c)

\* C10 as stated: for each of the four rotations the round trip mediabox ->
\* visual -> mediabox returns exactly the point it started from, and so
\* does visual -> mediabox -> visual.
C10_RoundTripExact == pc = "xf_back" => xf.r = xf.p

\* C10 as amended: the round trip is the identity within rounding.  It
\* returns the point exactly for rotation 0 and whenever the differences
\* between page dimensions and coordinates are representable; otherwise
\* each coordinate is off by at most one unit in the last place of the
\* longer page side.
C10_RoundTripWithinRounding ==
  pc = "xf_back" =>
    /\ (xf.rot = 0 \/ DifferencesExact) => xf.r = xf.p
    /\ \A k \in 1..2 :
         Abs(xf.r[k] - xf.p[k]) <= Ulp(IF xf.mw > xf.mh THEN xf.mw ELSE xf.mh)

\* a rotated round trip in which a subtraction was rounded
C10_Witness ==
  /\ pc = "xf_back"
  /\ xf.rot = 90
  /\ xf.from = "mediabox"
  /\ xf.r # xf.p

\* ------------------------------------------------------------------------
\* segment_views on bounded pages
\* ------------------------------------------------------------------------

MaxTitles == 3

\* title centre heights: 100 and 158 fall in one row, 160 opens the next
TitleYs == {100, 158, 160}

\* a title span 80 pt wide and 10 pt high around its centre
Title(t, c) ==
  [view_type |-> t, center |-> c,
   bbox |-> BBox(c[1] - 40, c[2] - 5, c[1] + 40, c[2] + 5)]

\* kept titles in the order of the text list: the i-th one is centred
\* 200 pt to the right of the one before it, at any of the heights; the
\* view types follow the position
TitleInputs ==
  {[i \in 1..Len(ys) |->
      Title(<<"FLOOR_PLAN", "ELEVATION", "SECTION", "ROOF_PLAN">>[((i - 1) % 4) + 1],
            <<200 * i - 100, ys[i]>>)] :
     ys \in SeqUpTo(TitleYs, MaxTitles)}

\* other text spans of the page, some of them on the midlines between
\* title centres
OtherTexts == {50, 130, 200} \X {50, 130, 200}

\* one spec table in the right 40% of the visual page
PanelInputs(vis_w, vis_h) ==
  {<<>>, << <<(7 * vis_w) \div 10, 50, vis_w - 20, vis_h - 50>> >>}

PageInputs ==
  {[rot |-> rot, mw |-> 800, mh |-> 400, titles |-> ts, panels |-> ps,
    texts |-> OtherTexts \cup {ts[i].center : i \in 1..Len(ts)}] :
     rot \in Rotations, ts \in TitleInputs,
     ps \in PanelInputs(800, 400) \cup PanelInputs(400, 800)}

InitViews ==
  /\ pc = "v_call"
  /\ doc \in {p \in PageInputs :
                p.panels \in PanelInputs(VisW(p.rot, p.mw, p.mh),
                                         VisH(p.rot, p.mw, p.mh))}
  /\ views = <<>>
  /\ handle = "none"
  /\ raised = ""
  /\ grid = None
  /\ dimensions = <<>>
  /\ heights = <<>>
  /\ quality = None
  /\ matching = None
  /\ structural_model = None
  /\ quantity_takeoff = None
  /\ catalog_map = {}
  /\ leader = NoLeader
  /\ xf = NoXf

SegmentViews ==
  /\ pc = "v_call"
  /\ views' = segment_views(doc)
  /\ pc' = "v_done"
  /\ UNCHANGED <<doc, handle, raised, grid, dimensions, heights, quality,
                 matching, structural_model, quantity_takeoff, catalog_map,
                 leader, xf>>

NextViews == SegmentViews

SpecViews == InitViews /\ [][NextViews]_vars

\* ------------------------------------------------------------------------
\* Properties of segment_views (SpecViews)
\* ------------------------------------------------------------------------

Segmented == pc = "v_done" /\ doc.titles # <<>>

\* C11: every view's region is non-empty (x0 < x1 and y0 < y1) and contains
\* the view's title bbox, hence the title centre.
C11_RegionContainsTitle ==
  Segmented =>
    \A i \in 1..Len(views) :
       LET r == views[i].region
           t == views[i].title_bbox
       IN /\ r.x0 < r.x1 /\ r.y0 < r.y1
          /\ contains(r, <<t.x0, t.y0>>) /\ contains(r, <<t.x1, t.y1>>)
          /\ contains(r, doc.titles[i].center)

\* C12: the regions of two distinct views have no point in common, so no
\* text span of the page is assigned to two views.
C12_RegionsDoNotOverlap ==
  Segmented =>
    \A i, j \in 1..Len(views) :
       i # j =>
         LET a == views[i].region
             b == views[j].region
         IN /\ a.x1 < b.x0 \/ b.x1 < a.x0 \/ a.y1 < b.y0 \/ b.y1 < a.y0
            /\ views[i].texts \cap views[j].texts = {}

\* ------------------------------------------------------------------------
\* Step D: extract_dimensions (dimensions.py)
\*   A text is a sequence of one-character strings.  The patterns are
\*   modelled by what re.match does on the stripped text: a digit group
\*   is any run of decimal digits of the allowed length, leading zeros
\*   included.  "x" stands for the multiplication signs and "@" for the
\*   two at-signs the patterns accept.
\* ------------------------------------------------------------------------

Digits == <<"0", "1", "2", "3", "4", "5", "6", "7", "8", "9">>

IsDigit(c) == \E i \in 1..10 : Digits[i] = c

DigitValue(c) == (CHOOSE i \in 1..10 : Digits[i] = c) - 1

\* float(group) / int(group) of a digit group
ToNumber(ds) ==
  SumSeq([i \in 1..Len(ds) |-> DigitValue(ds[i]) * 10^(Len(ds) - i)])

lstrip(t) ==
  IF \A i \in 1..Len(t) : t[i] = " " THEN <<>>
  ELSE SubSeq(t, Min({i \in 1..Len(t) : t[i] # " "}), Len(t))

rstrip(t) ==
  IF \A i \in 1..Len(t) : t[i] = " " THEN <<>>
  ELSE SubSeq(t, 1, Max({i \in 1..Len(t) : t[i] # " "}))

strip(t) == rstrip(lstrip(t))

\* \d{lo,hi} covering the whole of t
AllDigits(t, lo, hi) ==
  Len(t) \in lo..hi /\ \A i \in 1..Len(t) : IsDigit(t[i])

\* ^(\d{2,6})$ : the digit group, or None
PLAIN_DIM_PATTERN(text) ==
  IF AllDigits(text, 2, 6) THEN Some(text) ELSE None

\* ^[@]\s*(\d{2,6})$
PITCH_PATTERN(text) ==
  IF text # <<>> /\ text[1] = "@" /\ AllDigits(lstrip(Tail(text)), 2, 6)
  THEN Some(lstrip(Tail(text)))
  ELSE None

\* the groups left and right of the multiplication sign at position k
GroupsAround(text, k) ==
  <<rstrip(SubSeq(text, 1, k - 1)), lstrip(SubSeq(text, k + 1, Len(text)))>>

\* positions of a multiplication sign with a 2-6 digit group on its left
\* and a right part accepted by Right
SignPositions(text, Right(_)) ==
  {k \in 1..Len(text) :
     /\ text[k] \in {"x", "X"}
     /\ AllDigits(GroupsAround(text, k)[1], 2, 6)
     /\ Right(GroupsAround(text, k)[2])}

\* the two groups at the matching sign position, or None
GroupsOf(text, ks) ==
  IF ks = {} THEN None ELSE Some(GroupsAround(text, CHOOSE k \in ks : TRUE))

\* ^(\d{2,6})\s*[xX]\s*(\d{1,3})$
REPEAT_PATTERN(text) ==
  GroupsOf(text, SignPositions(text, LAMBDA r : AllDigits(r, 1, 3)))

\* ^(\d{2,6})\s*[xX]\s*([nN])$
REPEAT_SYMBOLIC_PATTERN(text) ==
  GroupsOf(text, SignPositions(text, LAMBDA r : r \in {<<"n">>, <<"N">>}))

Matched(dim_type, value, count) ==
  Some([dim_type |-> dim_type, value |-> value, repeat_count |-> count])

\* the pattern cascade on the stripped text
MatchStripped(text) ==
  IF PITCH_PATTERN(text) # None
  THEN Matched("PITCH", ToNumber(Val(PITCH_PATTERN(text))), None)
  ELSE IF REPEAT_PATTERN(text) # None
  THEN Matched("REPEAT", ToNumber(Val(REPEAT_PATTERN(text))[1]),
               Some(ToNumber(Val(REPEAT_PATTERN(text))[2])))
  ELSE IF REPEAT_SYMBOLIC_PATTERN(text) # None
  THEN Matched("REPEAT", ToNumber(Val(REPEAT_SYMBOLIC_PATTERN(text))[1]), None)
  ELSE IF PLAIN_DIM_PATTERN(text) # None
  THEN IF ToNumber(Val(PLAIN_DIM_PATTERN(text))) < 10 THEN None
       ELSE Matched("SINGLE", ToNumber(Val(PLAIN_DIM_PATTERN(text))), None)
  ELSE None

_match_dimension_text(text) == MatchStripped(strip(text))

\* the Dimension built for one matching text span
DimensionOf(result, text, view_type) ==
  [value |-> result.value, raw_text |-> text, dim_type |-> result.dim_type,
   repeat_count |-> result.repeat_count, source_view |-> view_type]

\* view : [view_type, texts]; the dimensions of its texts, in order, with
\* source_view set as extract_dimensions does
_extract_from_view(view) ==
  LET hits == SelectSeq([i \in 1..Len(view.texts) |-> i],
                        LAMBDA i : _match_dimension_text(view.texts[i]) # None)
  IN [k \in 1..Len(hits) |->
        DimensionOf(Val(_match_dimension_text(view.texts[hits[k]])),
                    view.texts[hits[k]], view.view_type)]

RECURSIVE extract_dimensions(_)
extract_dimensions(vs) ==
  IF vs = <<>> THEN <<>>
  ELSE _extract_from_view(Head(vs)) \o extract_dimensions(Tail(vs))

MaxTextLen == 4

TextChars == {"@", "0", "1", "x", "n", " "}

InitDims ==
  /\ pc = "d_call"
  /\ \E t \in {"FLOOR_PLAN", "SECTION"}, text \in SeqUpTo(TextChars, MaxTextLen) :
       doc = << [view_type |-> "ELEVATION", texts |-> <<>>],
                [view_type |-> t, texts |-> <<text>>] >>
  /\ dimensions = <<>>
  /\ views = <<>>
  /\ handle = "none"
  /\ raised = ""
  /\ grid = None
  /\ heights = <<>>
  /\ quality = None
  /\ matching = None
  /\ structural_model = None
  /\ quantity_takeoff = None
  /\ catalog_map = {}
  /\ leader = NoLeader
  /\ xf = NoXf

ExtractDimensions ==
  /\ pc = "d_call"
  /\ dimensions' = extract_dimensions(doc)
  /\ pc' = "d_done"
  /\ UNCHANGED <<doc, views, handle, raised, grid, heights, quality, matching,
                 structural_model, quantity_takeoff, catalog_map, leader, xf>>

NextDims == ExtractDimensions

SpecDims == InitDims /\ [][NextDims]_vars

\* the stripped source text ends in a decimal digit after a
\* multiplication sign: the form N x k with numeric k
NumericRepeatText(text) ==
  /\ \E k \in 1..Len(text) : text[k] \in {"x", "X"}
  /\ IsDigit(strip(text)[Len(strip(text))])

\* C13: every emitted Dimension has value >= 10, whether SINGLE, PITCH or
\* REPEAT, and a REPEAT carries a repeat_count exactly when its source text
\* has a numeric count.
C13_DimensionValues ==
  pc = "d_done" =>
    \A i \in 1..Len(dimensions) :
       /\ dimensions[i].value >= 10
       /\ dimensions[i].dim_type = "REPEAT" =>
            (dimensions[i].repeat_count # None
               <=> NumericRepeatText(dimensions[i].raw_text))

\* ------------------------------------------------------------------------
\* Step C: extract_grid_system (grids.py)
\*   view : [view_type, texts]; a text span is [text, center, line] where
\*   text is a sequence of characters, center is <<x, y>> and line is the
\*   midpoint of the line _associate_label_to_line returns for the span
\*   (None when no long line of the right orientation is within 100 pt).
\*   A label string is kept as a sequence of characters.
\* ------------------------------------------------------------------------

_normalize_axis(c) == IF c \in {"X", "x"} THEN "X" ELSE "Y"

\* str(index) for 0 <= index <= 99
DecimalString(n) ==
  IF n < 10 THEN <<Digits[n + 1]>>
  ELSE <<Digits[(n \div 10) + 1], Digits[(n % 10) + 1]>>

\* the text after the axis letter and the optional white space
AfterAxis(text) ==
  IF text # <<>> /\ text[1] \in {"X", "x", "Y", "y"}
  THEN Some(lstrip(Tail(text))) ELSE None

\* ^([XxYy])\s*(\d{1,2})$ : the digit group, or None
GRID_NUMERIC_PATTERN(text) ==
  IF AfterAxis(text) # None /\ AllDigits(Val(AfterAxis(text)), 1, 2)
  THEN AfterAxis(text) ELSE None

\* n\+?\d* over the whole of r, case ignored
SymbolicSuffix(r) ==
  /\ r # <<>>
  /\ r[1] \in {"n", "N"}
  /\ \/ \A i \in 2..Len(r) : IsDigit(r[i])
     \/ Len(r) >= 2 /\ r[2] = "+" /\ \A i \in 3..Len(r) : IsDigit(r[i])

\* ^([XxYy])\s*(n\+?\d*|n)$ : the suffix group, or None
GRID_SYMBOLIC_PATTERN(text) ==
  IF AfterAxis(text) # None /\ SymbolicSuffix(Val(AfterAxis(text)))
  THEN AfterAxis(text) ELSE None

\* (axis, index, label) of a stripped text, or None
GridLabelOf(clean) ==
  IF GRID_NUMERIC_PATTERN(clean) # None
  THEN Some([axis |-> _normalize_axis(clean[1]),
             index |-> ToNumber(Val(GRID_NUMERIC_PATTERN(clean))),
             label |-> <<_normalize_axis(clean[1])>> \o
                       DecimalString(ToNumber(Val(GRID_NUMERIC_PATTERN(clean))))])
  ELSE IF GRID_SYMBOLIC_PATTERN(clean) # None
  THEN Some([axis |-> _normalize_axis(clean[1]), index |-> 999,
             label |-> <<_normalize_axis(clean[1])>> \o
                       Val(GRID_SYMBOLIC_PATTERN(clean))])
  ELSE None

\* the elements of seq whose key no earlier element has
FirstOfEachKey(seq, key(_)) ==
  LET keep == SelectSeq([i \in 1..Len(seq) |-> i],
                        LAMBDA i : \A j \in 1..(i - 1) : key(seq[j]) # key(seq[i]))
  IN [k \in 1..Len(keep) |-> seq[keep[k]]]

\* the matching spans, each with its parsed label, first of each label
_find_grid_labels(texts) ==
  FirstOfEachKey(
    SelectSeq([i \in 1..Len(texts) |->
                 [parsed |-> GridLabelOf(strip(texts[i].text)), span |-> texts[i]]],
              LAMBDA m : m.parsed # None),
    LAMBDA m : Val(m.parsed).label)

_label_position(axis, span, swapped) ==
  IF swapped
  THEN IF span.line # None
       THEN IF axis = "X" THEN Val(span.line)[2] ELSE Val(span.line)[1]
       ELSE IF axis = "X" THEN span.center[2] ELSE span.center[1]
  ELSE IF span.line # None
       THEN IF axis = "X" THEN Val(span.line)[1] ELSE Val(span.line)[2]
       ELSE IF axis = "X" THEN span.center[1] ELSE span.center[2]

GridLabel(parsed, span, swapped) ==
  [axis |-> parsed.axis, label |-> parsed.label, index |-> parsed.index,
   position |-> _label_position(parsed.axis, span, swapped)]

\* all labels of one view, in text order (x_labels and y_labels together)
LabelsOfView(view, page_rotation) ==
  LET ms == _find_grid_labels(view.texts)
  IN [k \in 1..Len(ms) |->
        GridLabel(Val(ms[k].parsed), ms[k].span, page_rotation \in {90, 270})]

RECURSIVE LabelsOfViews(_, _)
LabelsOfViews(vs, page_rotation) ==
  IF vs = <<>> THEN <<>>
  ELSE LabelsOfView(Head(vs), page_rotation)
         \o LabelsOfViews(Tail(vs), page_rotation)

ViewsOfType(vs, t) == SelectSeq(vs, LAMBDA v : v.view_type = t)

\* the labels of all views in view order
CollectedLabels_view_order(vs, page_rotation) ==
  LabelsOfViews(vs, page_rotation)

\* the labels collected from the priority views, else from all views
CollectedLabels(vs, page_rotation) ==
  IF LabelsOfViews(ViewsOfType(vs, "FLOOR_PLAN") \o ViewsOfType(vs, "ELEVATION"),
                   page_rotation) # <<>>
  THEN LabelsOfViews(ViewsOfType(vs, "FLOOR_PLAN") \o ViewsOfType(vs, "ELEVATION"),
                     page_rotation)
  ELSE LabelsOfViews(vs, page_rotation)

\* source_view: the first view in collection order that has a label
\* (UNKNOWN is also the value source_view starts with, so a labelled view
\* of that type leaves it to the next labelled view)
FirstLabelledView(vs, page_rotation) ==
  IF SelectSeq(vs, LAMBDA v : /\ LabelsOfView(v, page_rotation) # <<>>
                              /\ v.view_type # "UNKNOWN") = <<>>
  THEN "UNKNOWN"
  ELSE SelectSeq(vs, LAMBDA v : /\ LabelsOfView(v, page_rotation) # <<>>
                                /\ v.view_type # "UNKNOWN")[1].view_type

SourceViewOf(vs, page_rotation) ==
  IF LabelsOfViews(ViewsOfType(vs, "FLOOR_PLAN") \o ViewsOfType(vs, "ELEVATION"),
                   page_rotation) # <<>>
  THEN FirstLabelledView(ViewsOfType(vs, "FLOOR_PLAN") \o ViewsOfType(vs, "ELEVATION"),
                         page_rotation)
  ELSE FirstLabelledView(vs, page_rotation)

\* deduplicated by label and sorted by position, for one axis
AxisLabels(all, axis) ==
  SortedBy(FirstOfEachKey(SelectSeq(all, LAMBDA l : l.axis = axis),
                          LAMBDA l : l.label),
           LAMBDA l : l.position)

GridSystemOf(all, source_view) ==
  IF all = <<>> THEN None
  ELSE Some([x_labels |-> AxisLabels(all, "X"),
             y_labels |-> AxisLabels(all, "Y"),
             source_view |-> source_view])

extract_grid_system(vs, page_rotation) ==
  IF CollectedLabels(vs, page_rotation) = <<>> THEN None
  ELSE GridSystemOf(CollectedLabels(vs, page_rotation),
                    SourceViewOf(vs, page_rotation))

MaxGridTexts == 2

GridTexts ==
  {<<"X", "1">>, <<"X", "2">>, <<"X", "0", "2">>, <<"X", "n">>,
   <<"X", "n", "+", "1">>, <<"Y", "1">>, <<"y", " ", "2">>, <<"1", "2">>}

GridSpans ==
  {[text |-> t, center |-> c, line |-> l] :
     t \in GridTexts, c \in {<<100, 300>>, <<300, 100>>},
     l \in {None, Some(<<200, 200>>)}}

\* a second view that repeats X1 further to the right
ElevationView ==
  [view_type |-> "ELEVATION",
   texts |-> << [text |-> <<"X", "1">>, center |-> <<300, 100>>, line |-> None] >>]

InitGrid ==
  /\ pc = "g_call"
  /\ \E t \in {"FLOOR_PLAN", "SECTION"}, rot \in {0, 90},
        extra \in {<<>>, <<ElevationView>>},
        texts \in SeqUpTo(GridSpans, MaxGridTexts) :
       /\ texts # <<>>
       /\ doc = [rot |-> rot,
                 views |-> <<[view_type |-> t, texts |-> texts]>> \o extra]
  /\ grid = None
  /\ dimensions = <<>>
  /\ views = <<>>
  /\ handle = "none"
  /\ raised = ""
  /\ heights = <<>>
  /\ quality = None
  /\ matching = None
  /\ structural_model = None
  /\ quantity_takeoff = None
  /\ catalog_map = {}
  /\ leader = NoLeader
  /\ xf = NoXf

ExtractGridSystem ==
  /\ pc = "g_call"
  /\ grid' = extract_grid_system(doc.views, doc.rot)
  /\ pc' = "g_done"
  /\ UNCHANGED <<doc, dimensions, views, handle, raised, heights, quality,
                 matching, structural_model, quantity_takeoff, catalog_map,
                 leader, xf>>

NextGrid == ExtractGridSystem

SpecGrid == InitGrid /\ [][NextGrid]_vars

\* the numeric labels of an axis are ordered in position as in index, and
\* every symbolic label has a larger index than every numeric one
OrderedByIndex(labels) ==
  \A i, j \in 1..Len(labels) :
     /\ (labels[i].index < 999 /\ labels[j].index < 999
           /\ labels[i].index < labels[j].index)
          => labels[i].position < labels[j].position
     /\ (labels[i].index < 999 /\ labels[j].index = 999)
          => labels[i].index < labels[j].index

\* C14: in every returned GridSystem, on each axis, a numeric label with
\* a smaller index has a smaller position, and symbolic labels (index 999)
\* compare greater than numeric ones.
C14_PositionsOrderedByIndex ==
  (pc = "g_done" /\ grid # None) =>
    /\ OrderedByIndex(Val(grid).x_labels)
    /\ OrderedByIndex(Val(grid).y_labels)

\* ------------------------------------------------------------------------
\* Step 2.6: parameter anchoring (matching.py), the geometric strategies
\*   view : [view_type, region, lines, x_labels, y_labels, grid_side]
\*     lines    - sequence of [orient, pos, length]: "h" or "v" for what
\*                is_horizontal / is_vertical accept, pos the midpoint
\*                coordinate across the line
\*     x_labels, y_labels - the label names extract_per_view_grids finds
\*     grid_side - what _detect_elevation_side reads from the title
\*   dimension : [value, dim_type, repeat_count, source_view, center]
\*   grid label : [label, index, position]
\*   Lengths in mm are whole numbers; a distance in mm computed from
\*   points is kept as the numerator of a fraction over PT_TO_MM_DEN.
\* ------------------------------------------------------------------------

\* PT_TO_MM = 25.4 / 72.0 = 254 / 720
PT_TO_MM_NUM == 254

PT_TO_MM_DEN == 720

\* dist_pts * PT_TO_MM * scale, times PT_TO_MM_DEN
MmTimesDen(dist_pts, scale) == dist_pts * PT_TO_MM_NUM * scale

\* round(dist_pts * PT_TO_MM * scale)
RoundedMm(dist_pts, scale) ==
  RoundHalfEven(MmTimesDen(dist_pts, scale), PT_TO_MM_DEN)

RECURSIVE ClusterPositions(_, _)
\* a position within cluster_tol = 5 of the last cluster is averaged into it
ClusterPositions(positions, clusters) ==
  IF positions = <<>> THEN clusters
  ELSE IF AbsDiff(Head(positions), clusters[Len(clusters)]) > 5
  THEN ClusterPositions(Tail(positions), Append(clusters, Head(positions)))
  ELSE ClusterPositions(
         Tail(positions),
         [clusters EXCEPT ![Len(clusters)] =
            (clusters[Len(clusters)] + Head(positions)) \div 2])

\* the orientation in the mediabox of the grid lines of an axis
GridLineOrient(is_y_axis, swapped) ==
  IF is_y_axis THEN (IF swapped THEN "v" ELSE "h")
  ELSE (IF swapped THEN "h" ELSE "v")

SortedClusters(positions) ==
  IF positions = <<>> THEN <<>>
  ELSE SortInts(ClusterPositions(Tail(positions), <<Head(positions)>>))

_find_distinct_grid_lines(view, is_y_axis, swapped, min_length) ==
  SortedClusters(SortInts(
    [k \in 1..Len(SelectSeq(view.lines,
                            LAMBDA ln : ln.length >= min_length
                              /\ ln.orient = GridLineOrient(is_y_axis, swapped)))
       |-> SelectSeq(view.lines,
                     LAMBDA ln : ln.length >= min_length
                       /\ ln.orient = GridLineOrient(is_y_axis, swapped))[k].pos]))

\* diff < tolerance, diff = abs(value - expected) / max(expected, 1), with
\* expected = e720 / PT_TO_MM_DEN and tolerance = tol_pct / 100
WithinTolerance(value, e720, tol_pct) ==
  100 * AbsDiff(PT_TO_MM_DEN * value, e720)
    < tol_pct * Max({e720, PT_TO_MM_DEN})

\* index of the dimension _find_matching_dimension returns (0 for none):
\* the first SINGLE or REPEAT of least diff among those within tolerance
MatchingDimensionIndex(e720, ds, tol_pct) ==
  LET ok == {i \in 1..Len(ds) :
               /\ ds[i].dim_type \in {"SINGLE", "REPEAT"}
               /\ WithinTolerance(ds[i].value, e720, tol_pct)}
  IN IF ok = {} THEN 0
     ELSE Min({i \in ok :
                 \A j \in ok : AbsDiff(PT_TO_MM_DEN * ds[i].value, e720)
                                 <= AbsDiff(PT_TO_MM_DEN * ds[j].value, e720)})

_find_matching_dimension(e720, ds, tol_pct) ==
  IF MatchingDimensionIndex(e720, ds, tol_pct) = 0 THEN None
  ELSE Some(ds[MatchingDimensionIndex(e720, ds, tol_pct)])

\* the pairs i < j of positions in loop order
PositionPairs(n) ==
  SelectSeq([k \in 1..(n * n) |-> <<((k - 1) \div n) + 1, ((k - 1) % n) + 1>>],
            LAMBDA p : p[1] < p[2])

\* the dimensions matched by the pairs, in loop order
PairMatches(positions, ds, scale, tol_pct) ==
  SelectSeq(
    [k \in 1..Len(PositionPairs(Len(positions))) |->
       _find_matching_dimension(
         MmTimesDen(AbsDiff(positions[PositionPairs(Len(positions))[k][2]],
                            positions[PositionPairs(Len(positions))[k][1]]),
                    scale),
         ds, tol_pct)],
    LAMBDA m : m # None)

\* best starts at value 0 and is replaced only by a strictly larger value
LargestFirst(matches) ==
  LET better == SelectSeq(matches,
                          LAMBDA m : Val(m).value > 0
                            /\ \A k \in 1..Len(matches) :
                                 Val(matches[k]).value <= Val(m).value)
  IN IF better = <<>> THEN None ELSE better[1]

\* the matched dimension, or None (tolerance 3%, min_length 100)
_match_grid_distance(view, ds, scale, is_y_axis, swapped) ==
  IF Len(_find_distinct_grid_lines(view, is_y_axis, swapped, 100)) < 2
  THEN None
  ELSE LargestFirst(
         PairMatches(_find_distinct_grid_lines(view, is_y_axis, swapped, 100),
                     ds, scale, 3))

_infer_elevation_side(x_labels, y_labels) ==
  IF x_labels # <<>> /\ y_labels = <<>> THEN Some("Y-side")
  ELSE IF y_labels # <<>> /\ x_labels = <<>> THEN Some("X-side")
  ELSE None

\* one ViewGridInfo per view; view_index is the position in views
_build_view_grid_info(vs) ==
  [i \in 1..Len(vs) |->
     [view_index |-> i, view_type |-> vs[i].view_type,
      grid_side |-> IF vs[i].view_type # "ELEVATION" THEN None
                    ELSE IF vs[i].title_side # None THEN vs[i].title_side
                    ELSE _infer_elevation_side(vs[i].x_labels, vs[i].y_labels),
      x_labels |-> vs[i].x_labels, y_labels |-> vs[i].y_labels]]

_find_plan_view(vs) ==
  IF SelectSeq(vs, LAMBDA v : v.view_type = "FLOOR_PLAN") = <<>> THEN None
  ELSE Some(SelectSeq(vs, LAMBDA v : v.view_type = "FLOOR_PLAN")[1])

\* the dimension text lies inside an elevation view that carries Y labels
InXSideElevation(d, vs, vgi) ==
  \E k \in 1..Len(vgi) :
     /\ vgi[k].view_type = "ELEVATION"
     /\ vgi[k].y_labels # <<>>
     /\ contains(vs[vgi[k].view_index].region, d.center)

\* d is accepted by _check_multi_span as n times the half span
MultiSpanHit(d, n, half_span, vs, vgi) ==
  /\ d.dim_type = "SINGLE"
  /\ ~(100 * AbsDiff(d.value, half_span * n) > 3 * Max({half_span * n, 1}))
  /\ \/ d.source_view = "SECTION"
     \/ d.source_view = "ELEVATION" /\ vs # <<>> /\ InXSideElevation(d, vs, vgi)

FirstHit(hits) == IF hits = <<>> THEN None ELSE Some(hits[1])

_check_multi_span_three_first(half_span, ds, vs, vgi) ==
  FirstHit(SelectSeq(ds, LAMBDA d : MultiSpanHit(d, 3, half_span, vs, vgi))
           \o SelectSeq(ds, LAMBDA d : MultiSpanHit(d, 2, half_span, vs, vgi)))

_check_multi_span(half_span, ds, vs, vgi) ==
  FirstHit(SelectSeq(ds, LAMBDA d : MultiSpanHit(d, 2, half_span, vs, vgi))
           \o SelectSeq(ds, LAMBDA d : MultiSpanHit(d, 3, half_span, vs, vgi)))

\* indices of the section and elevation views that have Y labels
YViewIndices(vgi) ==
  {vgi[k].view_index : k \in {k \in 1..Len(vgi) :
       vgi[k].y_labels # <<>> /\ vgi[k].view_type \in {"SECTION", "ELEVATION"}}}

\* the first of the largest dimensions among the candidates
LargestDimension(cands) ==
  FirstHit(SelectSeq(cands, LAMBDA d :
             \A k \in 1..Len(cands) : cands[k].value <= d.value))

_find_span_from_cross_views(ds, vs, vgi) ==
  LargestDimension(
    SelectSeq(ds, LAMBDA d :
      /\ d.dim_type = "SINGLE"
      /\ d.value >= 1000
      /\ d.source_view \in {"SECTION", "ELEVATION"}
      /\ \E vi \in YViewIndices(vgi) : contains(vs[vi].region, d.center)))

\* _compute_length_from_repeat --------------------------------------------

\* abs(v / p - round(v / p)) < pct / 100
NearMultiple(v, p, pct) == 100 * Min({v % p, p - (v % p)}) < pct * p

\* the distinct values of the SINGLE dimensions that are at least two
\* pitches long and clean multiples of the pitch, in order
RepeatSegments(ds, pitch_val) ==
  LET segs == SelectSeq(ds, LAMBDA d :
                /\ d.dim_type = "SINGLE"
                /\ d.value >= pitch_val * 2
                /\ NearMultiple(d.value, pitch_val, 5))
      firsts == SelectSeq([i \in 1..Len(segs) |-> i],
                          LAMBDA i : \A j \in 1..(i - 1) :
                                       segs[j].value # segs[i].value)
  IN [k \in 1..Len(firsts) |-> segs[firsts[k]].value]

\* with the pitch known and not zero
LengthFromPitch(ds, pitch_val, counted) ==
  IF counted # <<>> THEN Some(pitch_val * Val(counted[1].repeat_count))
  ELSE IF RepeatSegments(ds, pitch_val) # <<>>
  THEN Some(SumSeq(RepeatSegments(ds, pitch_val)))
  ELSE None

\* the pitch is the value of the first REPEAT or PITCH dimension
LengthFromFirstPitch(ds, pitched) ==
  IF pitched = <<>> \/ pitched[1].value = 0 THEN None
  ELSE LengthFromPitch(ds, pitched[1].value,
                       SelectSeq(ds, LAMBDA d : d.dim_type = "REPEAT"
                                                  /\ Truthy(d.repeat_count)))

_compute_length_from_repeat(ds) ==
  LengthFromFirstPitch(
    ds, SelectSeq(ds, LAMBDA d : d.dim_type \in {"REPEAT", "PITCH"}))

\* _anchor_parameters, strategy by strategy -------------------------------

Param(name, value, anchor_from, anchor_to, source_view, computed) ==
  [name |-> name, value |-> value, anchor_from |-> anchor_from,
   anchor_to |-> anchor_to, source_view |-> source_view,
   computed |-> computed]

\* the labels sorted by index (stable): first and last label name
FirstLabel(labels) ==
  IF labels = <<>> THEN None
  ELSE Some(SortedBy(labels, LAMBDA gl : gl.index)[1].label)

LastLabel(labels) ==
  IF labels = <<>> THEN None
  ELSE Some(SortedBy(labels, LAMBDA gl : gl.index)[Len(labels)].label)

\* abs(largest position - smallest position) over the labels
OutermostDistance(labels) ==
  Max({labels[i].position : i \in 1..Len(labels)})
    - Min({labels[i].position : i \in 1..Len(labels)})

\* the parameter computed from the outermost grid positions, if any
GridFallback(name, labels, scale) ==
  IF Len(labels) >= 2 /\ Truthy(scale) /\ OutermostDistance(labels) > 1
  THEN << Param(name, RoundedMm(OutermostDistance(labels), Val(scale)),
                FirstLabel(labels), LastLabel(labels), None, TRUE) >>
  ELSE <<>>

\* the plan-view grid-distance match along an axis
PlanMatch(plan_view, ds, scale, is_y_axis, swapped) ==
  IF plan_view # None /\ Truthy(scale)
  THEN _match_grid_distance(Val(plan_view), ds, Val(scale), is_y_axis, swapped)
  ELSE None

FromDimension(name, d, labels) ==
  << Param(name, d.value, FirstLabel(labels), LastLabel(labels),
           Some(d.source_view), FALSE) >>

\* span strategy 1 with the multi-span upgrade
SpanOfMatch(dim, multi, labels) ==
  IF multi # None THEN FromDimension("span", Val(multi), labels)
  ELSE FromDimension("span", dim, labels)

\* span strategies 2 and 3
SpanWithoutMatch(g, scale, cross) ==
  IF cross # None THEN FromDimension("span", Val(cross), g.y_labels)
  ELSE GridFallback("span", g.y_labels, scale)

SpanOf(g, ds, scale, vs, vgi, plan_match) ==
  IF plan_match # None
  THEN SpanOfMatch(Val(plan_match),
                   _check_multi_span(Val(plan_match).value, ds, vs, vgi),
                   g.y_labels)
  ELSE SpanWithoutMatch(g, scale,
                        IF vs # <<>> /\ vgi # <<>>
                        THEN _find_span_from_cross_views(ds, vs, vgi)
                        ELSE None)

SpanParams(g, ds, scale, plan_view, swapped, vs, vgi) ==
  SpanOf(g, ds, scale, vs, vgi, PlanMatch(plan_view, ds, scale, TRUE, swapped))

\* the X match is dropped when its value is within 3% of the span
RejectedAsSpan(d, span_val) ==
  /\ Truthy(span_val)
  /\ 100 * AbsDiff(d.value, Val(span_val)) < 3 * Max({Val(span_val), 1})

LengthWithoutMatch(g, scale, from_repeat) ==
  IF from_repeat # None
  THEN << Param("length", Val(from_repeat), FirstLabel(g.x_labels),
                LastLabel(g.x_labels), None, TRUE) >>
  ELSE GridFallback("length", g.x_labels, scale)

\* a variant that keeps the X match whatever the span
LengthOf_no_reject(g, ds, scale, span_val, plan_match) ==
  IF plan_match # None
  THEN FromDimension("length", Val(plan_match), g.x_labels)
  ELSE LengthWithoutMatch(g, scale, _compute_length_from_repeat(ds))

LengthOf(g, ds, scale, span_val, plan_match) ==
  IF plan_match # None /\ ~RejectedAsSpan(Val(plan_match), span_val)
  THEN FromDimension("length", Val(plan_match), g.x_labels)
  ELSE LengthWithoutMatch(g, scale, _compute_length_from_repeat(ds))

LengthParams(g, ds, scale, plan_view, swapped, span_val) ==
  LengthOf(g, ds, scale, span_val,
           PlanMatch(plan_view, ds, scale, FALSE, swapped))

\* _get_param: the value of the first parameter of that name
_get_param(params, name) ==
  IF SelectSeq(params, LAMBDA p : p.name = name) = <<>> THEN None
  ELSE Some(SelectSeq(params, LAMBDA p : p.name = name)[1].value)

\* the spacings in points between consecutive numeric X labels
NumericSpacings(x_sorted) ==
  LET pairs == SelectSeq([i \in 1..(Len(x_sorted) - 1) |-> i],
                         LAMBDA i : x_sorted[i + 1].index < 900
                                      /\ x_sorted[i].index < 900)
  IN [k \in 1..Len(pairs) |->
        AbsDiff(x_sorted[pairs[k] + 1].position, x_sorted[pairs[k]].position)]

\* all(abs(s - avg) / max(avg, 1) < 0.1), s and avg in mm
UniformSpacings(sp, scale) ==
  \A i \in 1..Len(sp) :
     10 * AbsDiff(Len(sp) * MmTimesDen(sp[i], scale),
                  MmTimesDen(SumSeq(sp), scale))
       < Max({MmTimesDen(SumSeq(sp), scale), PT_TO_MM_DEN * Len(sp)})

PitchFromSpacings(sp, scale) ==
  IF sp # <<>> /\ UniformSpacings(sp, scale)
  THEN << Param("bay_pitch",
                RoundHalfEven(MmTimesDen(SumSeq(sp), scale),
                              PT_TO_MM_DEN * Len(sp)),
                None, None, None, TRUE) >>
  ELSE <<>>

\* a variant that prefers the grid spacings to the PITCH dimensions
BayPitchOf_grid_first(g, scale, pitch_dims) ==
  IF Len(g.x_labels) >= 3 /\ Truthy(scale)
  THEN PitchFromSpacings(
         NumericSpacings(SortedBy(g.x_labels, LAMBDA gl : gl.position)),
         Val(scale))
  ELSE IF pitch_dims # <<>>
  THEN << Param("bay_pitch", pitch_dims[1].value, None, None,
                Some(pitch_dims[1].source_view), FALSE) >>
  ELSE <<>>

BayPitchOf(g, scale, pitch_dims) ==
  IF pitch_dims # <<>>
  THEN << Param("bay_pitch", pitch_dims[1].value, None, None,
                Some(pitch_dims[1].source_view), FALSE) >>
  ELSE IF Len(g.x_labels) >= 3 /\ Truthy(scale)
  THEN PitchFromSpacings(
         NumericSpacings(SortedBy(g.x_labels, LAMBDA gl : gl.position)),
         Val(scale))
  ELSE <<>>

BayPitchParams(g, ds, scale) ==
  BayPitchOf(g, scale, SelectSeq(ds, LAMBDA d : d.dim_type = "PITCH"))

Computed(name, value) == << Param(name, value, None, None, None, TRUE) >>

\* the fallback loop over the dimensions by decreasing value
CountFromDimensions(ds, pitch_val, length_val) ==
  LET hits == SelectSeq(SortedBy(ds, LAMBDA d : 0 - d.value), LAMBDA d :
                /\ d.dim_type = "SINGLE"
                /\ d.value >= pitch_val * 2
                /\ ~(Truthy(length_val) /\ d.value >= Val(length_val))
                /\ NearMultiple(d.value, pitch_val, 5))
  IN IF hits = <<>> THEN <<>>
     ELSE Computed("bay_count", RoundHalfEven(hits[1].value, pitch_val))

\* a variant that never looks at the length
CountFromPitch_dimensions_only(ds, pitch_val, length_val) ==
  CountFromDimensions(ds, pitch_val, None)

CountFromPitch(ds, pitch_val, length_val) ==
  IF Truthy(length_val) /\ NearMultiple(Val(length_val), pitch_val, 15)
  THEN Computed("bay_count", RoundHalfEven(Val(length_val), pitch_val))
  ELSE CountFromDimensions(ds, pitch_val, length_val)

BayCountOf(ds, length_val, pitch_val, repeat_dims) ==
  IF repeat_dims # <<>>
  THEN << Param("bay_count", Val(repeat_dims[1].repeat_count), None, None,
                None, FALSE) >>
  ELSE IF Truthy(pitch_val) /\ Val(pitch_val) > 0
  THEN CountFromPitch(ds, Val(pitch_val), length_val)
  ELSE <<>>

BayCountParams(ds, params) ==
  BayCountOf(ds, _get_param(params, "length"), _get_param(params, "bay_pitch"),
             SelectSeq(ds, LAMBDA d : d.dim_type = "REPEAT"
                                        /\ Truthy(d.repeat_count)))

\* params grows strategy by strategy, as the list does in the code
WithSpan(span_params, g, ds, scale, plan_view, swapped) ==
  span_params
    \o LengthParams(g, ds, scale, plan_view, swapped,
                    _get_param(span_params, "span"))

WithCount(ds, params) == params \o BayCountParams(ds, params)

\* the span, length, bay_pitch and bay_count parameters of
\* _anchor_parameters, in the order they are appended
AnchoredGeometry(g, ds, scale, plan_view, swapped, vs, vgi) ==
  WithCount(ds,
    WithSpan(SpanParams(g, ds, scale, plan_view, swapped, vs, vgi),
             g, ds, scale, plan_view, swapped)
      \o BayPitchParams(g, ds, scale))

\* _run_consistency_checks -------------------------------------------------

Check(name, status) == [name |-> name, status |-> status]

SetOf(seq) == {seq[i] : i \in 1..Len(seq)}

\* check 1 on the first plan view and all the elevation views
GridContinuity(plan_views, elev_views) ==
  IF plan_views = <<>> \/ elev_views = <<>> THEN <<>>
  ELSE LET common == SetOf(plan_views[1].x_labels)
                       \cap UNION {SetOf(elev_views[i].x_labels) :
                                     i \in 1..Len(elev_views)}
       IN << Check("Grid continuity",
                   IF Cardinality(common) >= 2 THEN "PASS"
                   ELSE IF Cardinality(common) = 1 THEN "WARN" ELSE "FAIL") >>

\* check 2: abs(pitch * count - length) / max(length, 1) < 0.05
PitchCountLength(pitch, bay_count, length) ==
  IF Truthy(pitch) /\ Truthy(bay_count) /\ Truthy(length)
  THEN << Check("Pitch x count = length",
                IF 100 * AbsDiff(Val(pitch) * Val(bay_count), Val(length))
                     < 5 * Max({Val(length), 1})
                THEN "PASS" ELSE "WARN") >>
  ELSE <<>>

\* check 3 made of every drawing
ElevationSides_every_drawing(elev_views) ==
  LET sides == {Val(elev_views[i].grid_side) :
                  i \in {i \in 1..Len(elev_views) :
                           elev_views[i].grid_side # None}}
  IN IF Cardinality(sides) >= 2 THEN << Check("Elevation sides identified", "PASS") >>
     ELSE IF Cardinality(sides) = 1 THEN << Check("Elevation sides identified", "WARN") >>
     ELSE << Check("Elevation sides identified", "FAIL") >>

\* check 3
ElevationSides(elev_views) ==
  LET sides == {Val(elev_views[i].grid_side) :
                  i \in {i \in 1..Len(elev_views) :
                           elev_views[i].grid_side # None}}
  IN IF Cardinality(sides) >= 2 THEN << Check("Elevation sides identified", "PASS") >>
     ELSE IF Cardinality(sides) = 1 THEN << Check("Elevation sides identified", "WARN") >>
     ELSE IF elev_views # <<>> THEN << Check("Elevation sides identified", "FAIL") >>
     ELSE <<>>

\* check 4
BuildingParameters(found) ==
  << Check("Building parameters",
           IF found = 4 THEN "PASS" ELSE IF found >= 2 THEN "WARN" ELSE "FAIL") >>

_run_consistency_checks(vgi, span, length, pitch, bay_count) ==
  GridContinuity(SelectSeq(vgi, LAMBDA v : v.view_type = "FLOOR_PLAN"),
                 SelectSeq(vgi, LAMBDA v : v.view_type = "ELEVATION"))
    \o PitchCountLength(pitch, bay_count, length)
    \o ElevationSides(SelectSeq(vgi, LAMBDA v : v.view_type = "ELEVATION"))
    \o BuildingParameters(Cardinality({i \in 1..4 :
                            <<span, length, pitch, bay_count>>[i] # None}))

\* run_matching with the geometry worked out: the MatchingResult fields
\* that depend on it
MatchingOf(vgi, anchored) ==
  [anchored_params |-> anchored,
   consistency_checks |->
     _run_consistency_checks(vgi, _get_param(anchored, "span"),
                             _get_param(anchored, "length"),
                             _get_param(anchored, "bay_pitch"),
                             _get_param(anchored, "bay_count")),
   span |-> _get_param(anchored, "span"),
   length |-> _get_param(anchored, "length"),
   bay_pitch |-> _get_param(anchored, "bay_pitch"),
   bay_count |-> IF Truthy(_get_param(anchored, "bay_count"))
                 THEN _get_param(anchored, "bay_count") ELSE None]

\* '1/150' -> 150; the scale string of a view is kept as its digits
_parse_scale(scale_str) ==
  IF scale_str = None \/ Val(scale_str) = <<>> THEN None
  ELSE Some(ToNumber(Val(scale_str)))

PlanScale(plan_view) ==
  IF plan_view = None THEN None ELSE _parse_scale(Val(plan_view).scale)

\* in : [views, grid, dimensions, rot]
run_matching_geometry(in) ==
  IF in.grid = None THEN None
  ELSE Some(MatchingOf(
         _build_view_grid_info(in.views),
         AnchoredGeometry(Val(in.grid), in.dimensions,
                          PlanScale(_find_plan_view(in.views)),
                          _find_plan_view(in.views), in.rot \in {90, 270},
                          in.views, _build_view_grid_info(in.views))))

\* ------------------------------------------------------------------------
\* run_matching on bounded drawings
\*   scale 1/100: 142 pt are 5009 mm, 57 pt are 2011 mm, 283 pt are 9984 mm
\* ------------------------------------------------------------------------

GLine(orient, pos) == [orient |-> orient, pos |-> pos, length |-> 200]

\* horizontal long lines of the plan: none, or three of which two cluster
PlanHLines == {<<>>, <<GLine("h", 100), GLine("h", 104), GLine("h", 244)>>}

\* vertical long lines of the plan: none, one bay and the whole length, or
\* a pair as far apart as the horizontal ones
PlanVLines ==
  {<<>>, <<GLine("v", 100), GLine("v", 157), GLine("v", 383)>>,
   <<GLine("v", 100), GLine("v", 242)>>}

MView(t, region, scale, lines, xl, yl) ==
  [view_type |-> t, region |-> region, scale |-> scale, lines |-> lines,
   x_labels |-> xl, y_labels |-> yl, title_side |-> None]

YNames == <<<<"Y", "1">>, <<"Y", "2">>>>

XNames == <<<<"X", "1">>, <<"X", "2">>>>

MGridLabel(name, index, position) ==
  [label |-> name, index |-> index, position |-> position]

\* no grid, two labels per axis, or four X labels with a symbolic last one
MatchGrids ==
  {None,
   Some([x_labels |-> <<MGridLabel(<<"X", "1">>, 1, 100),
                        MGridLabel(<<"X", "2">>, 2, 157)>>,
         y_labels |-> <<MGridLabel(<<"Y", "1">>, 1, 100),
                        MGridLabel(<<"Y", "2">>, 2, 242)>>]),
   Some([x_labels |-> <<MGridLabel(<<"X", "1">>, 1, 100),
                        MGridLabel(<<"X", "2">>, 2, 157),
                        MGridLabel(<<"X", "3">>, 3, 214),
                        MGridLabel(<<"X", "n", "+", "1">>, 999, 383)>>,
         y_labels |-> <<MGridLabel(<<"Y", "2">>, 2, 100),
                        MGridLabel(<<"Y", "1">>, 1, 242)>>])}

MDim(value, dim_type, count, source_view, center) ==
  [value |-> value, dim_type |-> dim_type, repeat_count |-> count,
   source_view |-> source_view, center |-> center]

\* the dimensions a drawing may carry, in extraction order
DimPool ==
  << MDim(5000, "SINGLE", None, "FLOOR_PLAN", <<200, 150>>),
     MDim(10200, "SINGLE", None, "SECTION", <<600, 150>>),
     MDim(10000, "SINGLE", None, "SECTION", <<600, 100>>),
     MDim(3000, "PITCH", None, "ELEVATION", <<400, 500>>),
     MDim(2000, "PITCH", None, "FLOOR_PLAN", <<200, 50>>),
     MDim(2000, "REPEAT", Some(5), "FLOOR_PLAN", <<200, 60>>),
     MDim(2000, "REPEAT", None, "FLOOR_PLAN", <<200, 70>>),
     MDim(15000, "SINGLE", None, "ELEVATION", <<400, 450>>),
     MDim(10000, "SINGLE", None, "FLOOR_PLAN", <<200, 250>>) >>

\* the plan is missing, carries no scale, or is drawn at 1/100
PlanViews(hl, vl) ==
  {<<>>,
   << MView("FLOOR_PLAN", BBox(0, 0, 400, 300), None, hl \o vl, XNames, YNames) >>,
   << MView("FLOOR_PLAN", BBox(0, 0, 400, 300), Some(<<"1", "0", "0">>),
            hl \o vl, XNames, YNames) >>}

InitMatch ==
  /\ pc = "m_call"
  /\ \E hl \in PlanHLines, vl \in PlanVLines,
        sec_y \in {<<>>, YNames}, elev_y \in {<<>>, YNames},
        g \in MatchGrids, rot \in {0, 90}, picked \in SUBSET (1..Len(DimPool)) :
       \E plan \in PlanViews(hl, vl) :
         doc = [rot |-> rot, grid |-> g,
                views |-> plan \o
                  << MView("SECTION", BBox(400, 0, 800, 300), None, <<>>,
                           <<>>, sec_y),
                     MView("ELEVATION", BBox(0, 300, 800, 600), None, <<>>,
                           IF elev_y = <<>> THEN XNames ELSE <<>>, elev_y) >>,
                dimensions |-> SelectSeq(DimPool, LAMBDA d :
                                 \E i \in picked : DimPool[i] = d)]
  /\ matching = None
  /\ grid = None
  /\ dimensions = <<>>
  /\ views = <<>>
  /\ handle = "none"
  /\ raised = ""
  /\ heights = <<>>
  /\ quality = None
  /\ structural_model = None
  /\ quantity_takeoff = None
  /\ catalog_map = {}
  /\ leader = NoLeader
  /\ xf = NoXf

RunMatching ==
  /\ pc = "m_call"
  /\ matching' = run_matching_geometry(doc)
  /\ pc' = "m_done"
  /\ UNCHANGED <<doc, grid, dimensions, views, handle, raised, heights,
                 quality, structural_model, quantity_takeoff, catalog_map,
                 leader, xf>>

NextMatch == RunMatching

SpecMatch == InitMatch /\ [][NextMatch]_vars

\* ------------------------------------------------------------------------
\* Properties of run_matching (SpecMatch)
\* ------------------------------------------------------------------------

MatchingDone == pc = "m_done" /\ matching # None

MSwapped == doc.rot \in {90, 270}

\* the floor-plan grid-distance match along Y and along X
YMatch ==
  PlanMatch(_find_plan_view(doc.views), doc.dimensions,
            PlanScale(_find_plan_view(doc.views)), TRUE, MSwapped)

XMatch ==
  PlanMatch(_find_plan_view(doc.views), doc.dimensions,
            PlanScale(_find_plan_view(doc.views)), FALSE, MSwapped)

SpanParamsOut ==
  SelectSeq(Val(matching).anchored_params, LAMBDA p : p.name = "span")

LengthParamsOut ==
  SelectSeq(Val(matching).anchored_params, LAMBDA p : p.name = "length")

\* the anchors are the labels of smallest and largest index (none when
\* there is no label)
OutermostAnchors(p, labels) ==
  IF labels = <<>> THEN p.anchor_from = None /\ p.anchor_to = None
  ELSE \E a, b \in 1..Len(labels) :
         /\ p.anchor_from = Some(labels[a].label)
         /\ p.anchor_to = Some(labels[b].label)
         /\ \A k \in 1..Len(labels) :
              labels[a].index <= labels[k].index
                /\ labels[k].index <= labels[b].index

\* the case of the multi-span rule: the Y match yields H and a SINGLE of
\* value 2H comes from a section view
MultiSpanCase ==
  /\ MatchingDone
  /\ YMatch # None
  /\ \E i \in 1..Len(doc.dimensions) :
       /\ doc.dimensions[i].dim_type = "SINGLE"
       /\ doc.dimensions[i].source_view = "SECTION"
       /\ doc.dimensions[i].value = 2 * Val(YMatch).value

ConfirmsDouble(d) ==
  /\ d.dim_type = "SINGLE"
  /\ 100 * AbsDiff(d.value, 2 * Val(YMatch).value)
       <= 3 * Max({2 * Val(YMatch).value, 1})
  /\ \/ d.source_view = "SECTION"
     \/ /\ d.source_view = "ELEVATION"
        /\ \E k \in 1..Len(doc.views) :
             /\ doc.views[k].view_type = "ELEVATION"
             /\ doc.views[k].y_labels # <<>>
             /\ contains(doc.views[k].region, d.center)

PitchRepeatSingle(ds, i, j, l) ==
  /\ ds[i].dim_type = "PITCH"
  /\ ds[j].dim_type = "REPEAT"
  /\ ds[j].value = ds[i].value
  /\ ds[j].repeat_count # None
  /\ Val(ds[j].repeat_count) >= 1
  /\ ds[l].dim_type = "SINGLE"
  /\ ds[l].value = ds[i].value * Val(ds[j].repeat_count)

\* bay_pitch = p, bay_count = k, length = p * k and the check passes
PitchCountLengthAgree(m, p, k) ==
  /\ m # None
  /\ Val(m).bay_pitch = Some(p)
  /\ Val(m).bay_count = Some(k)
  /\ Val(m).length = Some(p * k)
  /\ \E c \in 1..Len(Val(m).consistency_checks) :
       Val(m).consistency_checks[c] = Check("Pitch x count = length", "PASS")

FirstWhere(ds, i, Test(_)) ==
  Test(ds[i]) /\ \A n \in 1..(i - 1) : ~Test(ds[n])

\* the PITCH i is the first PITCH and has the value of the first PITCH or
\* REPEAT, and the REPEAT j is the first one with a non-zero count
FirstOfTheirKind(ds, i, j) ==
  /\ ds[i].value > 0
  /\ FirstWhere(ds, i, LAMBDA d : d.dim_type = "PITCH")
  /\ \E f \in 1..Len(ds) :
       /\ FirstWhere(ds, f, LAMBDA d : d.dim_type \in {"REPEAT", "PITCH"})
       /\ ds[f].value = ds[i].value
  /\ FirstWhere(ds, j, LAMBDA d : d.dim_type = "REPEAT"
                                    /\ Truthy(d.repeat_count))

\* the floor-plan match along X fails, is within 3% of the reported span,
\* or has the value v
XMatchGivesWay(v) ==
  \/ XMatch = None
  \/ RejectedAsSpan(Val(XMatch), Val(matching).span)
  \/ Val(XMatch).value = v

InCrossView(d) ==
  \E k \in 1..Len(doc.views) :
    /\ contains(doc.views[k].region, d.center)
    /\ \/ doc.views[k].view_type = "SECTION"
       \/ doc.views[k].view_type = "ELEVATION" /\ doc.views[k].y_labels # <<>>

CrossViewSingles ==
  SelectSeq(doc.dimensions, LAMBDA d :
    d.dim_type = "SINGLE" /\ d.value >= 1000 /\ InCrossView(d))

\* C19: the span comes from the first strategy that succeeds, in the order
\* (a) floor-plan match along Y with the multi-span upgrade, (c) the largest
\* SINGLE dimension of at least 1000 mm inside a section view or an X-side
\* elevation, (d) the outermost Y-grid positions via the scale; at most one
\* span parameter is emitted, and (c) succeeds whenever such a dimension
\* lies inside a section view.
C19_SpanStrategyOrder ==
  MatchingDone =>
    /\ Len(SpanParamsOut) <= 1
    /\ YMatch # None =>
         SpanParamsOut =
           SpanOfMatch(Val(YMatch),
                       _check_multi_span(Val(YMatch).value, doc.dimensions,
                                         doc.views,
                                         _build_view_grid_info(doc.views)),
                       Val(doc.grid).y_labels)
    /\ YMatch = None /\ CrossViewSingles # <<>> =>
         /\ Len(SpanParamsOut) = 1
         /\ ~SpanParamsOut[1].computed
         /\ \A i \in 1..Len(CrossViewSingles) :
              CrossViewSingles[i].value <= SpanParamsOut[1].value
         /\ \E i \in 1..Len(CrossViewSingles) :
              CrossViewSingles[i].value = SpanParamsOut[1].value
    /\ YMatch = None /\ CrossViewSingles = <<>> =>
         SpanParamsOut =
           GridFallback("span", Val(doc.grid).y_labels,
                        PlanScale(_find_plan_view(doc.views)))

\* the same with strategy (c) restricted to the views that carry Y labels:
\* the code's reading, which the section view without labels escapes
LabelledCrossViewSingles ==
  SelectSeq(CrossViewSingles, LAMBDA d :
    \E k \in 1..Len(doc.views) :
      /\ contains(doc.views[k].region, d.center)
      /\ doc.views[k].view_type \in {"SECTION", "ELEVATION"}
      /\ doc.views[k].y_labels # <<>>)

SpanFromLabelledCrossViews ==
  MatchingDone /\ YMatch = None /\ LabelledCrossViewSingles # <<>> =>
    /\ Len(SpanParamsOut) = 1
    /\ \A i \in 1..Len(LabelledCrossViewSingles) :
         LabelledCrossViewSingles[i].value <= SpanParamsOut[1].value

\* the floor-plan match along X exists and is within 3% of the reported span
XMatchRejected ==
  XMatch # None /\ RejectedAsSpan(Val(XMatch), Val(matching).span)

\* the single length parameter has this value and this origin
LengthIs(value, computed) ==
  /\ Len(LengthParamsOut) = 1
  /\ LengthParamsOut[1].value = value
  /\ LengthParamsOut[1].computed = computed

\* C20: the length comes from the first strategy that succeeds, in the
\* order (a) floor-plan match along X, (b) repeat-chain sum, (c) outermost
\* X-grid positions via the scale; a match within 3% of the span is
\* rejected and never reported as length, (b) and then (c) being tried
\* instead; at most one length parameter is emitted.
C20_LengthStrategyOrder ==
  MatchingDone =>
    /\ Len(LengthParamsOut) <= 1
    /\ XMatch # None /\ ~XMatchRejected =>
         LengthIs(Val(XMatch).value, FALSE)
    /\ XMatchRejected =>
         \A i \in 1..Len(LengthParamsOut) : LengthParamsOut[i].computed
    /\ (XMatch = None \/ XMatchRejected)
         /\ _compute_length_from_repeat(doc.dimensions) # None =>
         LengthIs(Val(_compute_length_from_repeat(doc.dimensions)), TRUE)
    /\ (XMatch = None \/ XMatchRejected)
         /\ _compute_length_from_repeat(doc.dimensions) = None =>
         LengthParamsOut =
           GridFallback("length", Val(doc.grid).x_labels,
                        PlanScale(_find_plan_view(doc.views)))

\* the X match was rejected as span and the repeat chain gave the length
C20_Witness ==
  /\ MatchingDone
  /\ XMatchRejected
  /\ _compute_length_from_repeat(doc.dimensions) = Some(10000)
  /\ LengthIs(10000, TRUE)

\* the X match was rejected, no repeat chain, the grid gave the length
C20_GridWitness ==
  /\ MatchingDone
  /\ XMatchRejected
  /\ _compute_length_from_repeat(doc.dimensions) = None
  /\ Len(LengthParamsOut) = 1

\* ------------------------------------------------------------------------
\* Structural line counting (koyafuse.py, _count_structural_lines) and the
\* lengths assigned from matching (analyzer.py).
\*   A line is [x1, y1, x2, y2, length, width], the width in hundredths of
\*   a point; a tip is <<x, y>>.  Line positions are kept in sixteenths of a
\*   point, so that halving a sum of centres stays exact.
\* ------------------------------------------------------------------------

Sub == 16

\* abs(lw - 0.42) <= 0.05, llen >= 150 and an angle of at least 80 degrees
\* (tan 80 = 5.671)
IsStructuralVertical(l) ==
  /\ AbsDiff(l.width, 42) <= 5
  /\ l.length >= 150
  /\ l.y1 # l.y2
  /\ 1000 * AbsDiff(l.y1, l.y2) >= 5671 * AbsDiff(l.x1, l.x2)

\* the centre of the line lies in the drawing bbox widened by 5 and 20
CentreInDrawing(l, bb) ==
  /\ 2 * (bb.x0 - 5) <= l.x1 + l.x2
  /\ l.x1 + l.x2 <= 2 * (bb.x1 + 5)
  /\ 2 * (bb.y0 - 20) <= l.y1 + l.y2
  /\ l.y1 + l.y2 <= 2 * (bb.y1 + 20)

VertLine(l) ==
  [cx |-> (Sub \div 2) * (l.x1 + l.x2), cy |-> (Sub \div 2) * (l.y1 + l.y2),
   length |-> l.length]

\* vert_lines, sorted as tuples (x_center, y_center, length)
SortedVertLines(selected) ==
  SortedBy(SortedBy(SortedBy([i \in 1..Len(selected) |-> VertLine(selected[i])],
                             LAMBDA v : v.length),
                    LAMBDA v : v.cy),
           LAMBDA v : v.cx)

\* one step of the grouping: merge into the last position within 5 pt
MergeInto(positions, v) ==
  IF positions # <<>> /\ AbsDiff(v.cx, positions[Len(positions)].cx) <= 5 * Sub
  THEN [positions EXCEPT ![Len(positions)] =
          [cx |-> @.cx, cy |-> (@.cy + v.cy) \div 2,
           length |-> Max({@.length, v.length})]]
  ELSE Append(positions, v)

RECURSIVE MergePositions(_, _)
MergePositions(sorted, n) ==
  IF n = 0 THEN <<>>
  ELSE MergeInto(MergePositions(sorted, n - 1), sorted[n])

\* vert_positions: the distinct X positions of the long vertical lines
VertPositions(lines, bb) ==
  MergePositions(
    SortedVertLines(SelectSeq(lines, LAMBDA l :
      IsStructuralVertical(l) /\ CentreInDrawing(l, bb))),
    Len(SelectSeq(lines, LAMBDA l :
      IsStructuralVertical(l) /\ CentreInDrawing(l, bb))))

Clamp(v, a, b) == Max({Min({a, b}), Min({v, Max({a, b})})})

\* _point_to_segment_dist, squared, for a segment parallel to an axis: the
\* projection is the point clamped to the segment
_point_to_segment_dist(px, py, l) ==
  (px - Clamp(px, l.x1, l.x2)) * (px - Clamp(px, l.x1, l.x2))
    + (py - Clamp(py, l.y1, l.y2)) * (py - Clamp(py, l.y1, l.y2))

\* the length of the first nearest long vertical line, 0 without any
NearestLength(tip, cands) ==
  IF cands = <<>> THEN 0
  ELSE cands[Min({i \in 1..Len(cands) :
                    \A j \in 1..Len(cands) :
                      _point_to_segment_dist(tip[1], tip[2], cands[i])
                        <= _point_to_segment_dist(tip[1], tip[2], cands[j])})
            ].length

RefLen(tip, lines) == NearestLength(tip, SelectSeq(lines, IsStructuralVertical))

\* abs(vlen - ref_len) <= ref_len * 0.05
SimilarLength(positions, ref_len) ==
  SelectSeq(positions, LAMBDA v : 20 * AbsDiff(v.length, ref_len) <= ref_len)

TipPositions(m) ==
  [i \in 1..Len(m.leader_tips) |->
     <<Sub * m.leader_tips[i][1], Sub * m.leader_tips[i][2]>>]

Counted(m, n, positions) ==
  [m EXCEPT !.line_count = n, !.line_positions = positions]

CountByTips(m) == Counted(m, m.tip_count, TipPositions(m))

CountByLength(m, ref_len, positions) ==
  IF ref_len > 0
  THEN Counted(m, Len(SimilarLength(positions, ref_len)),
               [i \in 1..Len(SimilarLength(positions, ref_len)) |->
                  <<SimilarLength(positions, ref_len)[i].cx,
                    SimilarLength(positions, ref_len)[i].cy>>])
  ELSE CountByTips(m)

CountMember(m, lines, positions) ==
  IF m.orientation = "x" THEN CountByTips(m)
  ELSE IF m.orientation = "y" /\ m.leader_tips # <<>>
  THEN CountByLength(m, RefLen(m.leader_tips[1], lines), positions)
  ELSE CountByTips(m)

CountAll(detected, lines, positions) ==
  [i \in 1..Len(detected) |-> CountMember(detected[i], lines, positions)]

_count_structural_lines(detected, lines, drawing_bbox) ==
  IF drawing_bbox = None
  THEN [i \in 1..Len(detected) |->
          [detected[i] EXCEPT !.line_count = detected[i].tip_count]]
  ELSE CountAll(detected, lines, VertPositions(lines, Val(drawing_bbox)))

\* the tail of _detect_members: the lines are counted, then the members are
\* sorted by number (the modifier is empty throughout)
CatalogOrder == <<"1", "2", "3", "4", "5", "6", "7", "8", "9", "10", "11", "12">>

MemberInt(s) == CHOOSE i \in 1..Len(CatalogOrder) : CatalogOrder[i] = s

CountedAndSorted(detected, lines, drawing_bbox) ==
  SortedBy(_count_structural_lines(detected, lines, drawing_bbox),
           LAMBDA m : MemberInt(m.member_number))

\* ------------------------------------------------------------------------
\* Leader members on bounded drawings
\* ------------------------------------------------------------------------

SLine(x1, y1, x2, y2, width) ==
  [x1 |-> x1, y1 |-> y1, x2 |-> x2, y2 |-> y2,
   length |-> AbsDiff(x1, x2) + AbsDiff(y1, y2), width |-> width]

\* a frame line drawn in two unequal pieces, two frame lines of nearly the
\* same length, a beam, a thin line, and a frame line off the drawing
LinePool ==
  << SLine(300, 100, 300, 300, 42), SLine(300, 300, 300, 600, 42),
     SLine(500, 100, 500, 300, 42), SLine(700, 100, 700, 310, 42),
     SLine(300, 100, 500, 100, 42), SLine(400, 100, 400, 300, 30),
     SLine(900, 100, 900, 300, 42) >>

TracedMember(number, orientation, tips) ==
  [member_number |-> number, orientation |-> orientation,
   leader_tips |-> tips, tip_count |-> Len(tips), line_count |-> 0,
   line_positions |-> <<>>,
   unit_length |-> None, total_length |-> None, section_text |-> None,
   member_kind |-> "", unit_weight |-> None, total_weight |-> None]

\* labels as steps 1 to 4 of _detect_members leave them
MemberPool ==
  { TracedMember("1", "y", << <<300, 250>> >>),
    TracedMember("1", "y", <<>>),
    TracedMember("2", "", <<>>),
    TracedMember("3", "y", << <<500, 200>>, <<300, 250>> >>),
    TracedMember("4", "x", << <<200, 150>>, <<200, 200>>, <<200, 250>> >>) }

MaxMembers == 2

\* a label without tips has the orientation of the tips of its namesakes
OrientationFromTips(ms) ==
  \A i \in 1..Len(ms) :
    ms[i].leader_tips = <<>> /\ ms[i].orientation # "" =>
      \E j \in 1..Len(ms) :
        /\ ms[j].member_number = ms[i].member_number
        /\ ms[j].leader_tips # <<>>
        /\ ms[j].orientation = ms[i].orientation

DrawingBoxes == {None, Some(BBox(70, 70, 750, 630))}

LengthsFromMatching ==
  {None, Some([span |-> Some(10000), length |-> None]),
   Some([span |-> Some(10000), length |-> Some(30000)])}

InitCount ==
  /\ pc = "c_call"
  /\ \E picked \in SUBSET (1..Len(LinePool)), ms \in SeqUpTo(MemberPool, MaxMembers),
        bb \in DrawingBoxes :
       /\ OrientationFromTips(ms)
       /\ doc = [lines |-> SelectSeq(LinePool, LAMBDA l :
                             \E i \in picked : LinePool[i] = l),
                 members |-> ms, drawing_bbox |-> bb]
  /\ matching \in LengthsFromMatching
  /\ leader = NoLeader
  /\ catalog_map = {}
  /\ grid = None
  /\ dimensions = <<>>
  /\ views = <<>>
  /\ handle = "none"
  /\ raised = ""
  /\ heights = <<>>
  /\ quality = None
  /\ structural_model = None
  /\ quantity_takeoff = None
  /\ xf = NoXf

\* detect_koyafuse_members from step 5 of _detect_members on
DetectMembers ==
  /\ pc = "c_call"
  /\ leader' = [leader EXCEPT !["koyafuse"] =
       Some([drawing_bbox |-> doc.drawing_bbox # None,
             detected_members |->
               CountedAndSorted(doc.members, doc.lines, doc.drawing_bbox)])]
  /\ pc' = "c_detected"
  /\ UNCHANGED <<doc, matching, catalog_map, grid, dimensions, views, handle,
                 raised, heights, quality, structural_model, quantity_takeoff,
                 xf>>

\* analyze_drawing: lengths from matching, weights from the catalog
AssignLengths ==
  /\ pc = "c_detected"
  /\ catalog_map' = CatalogNumbers
  /\ leader' = [leader EXCEPT !["koyafuse"] =
       Some(_assign_lengths_and_weights(Val(leader["koyafuse"]), matching,
                                        CatalogNumbers))]
  /\ pc' = "c_done"
  /\ UNCHANGED <<doc, matching, grid, dimensions, views, handle, raised,
                 heights, quality, structural_model, quantity_takeoff, xf>>

NextCount == DetectMembers \/ AssignLengths

SpecCount == InitCount /\ [][NextCount]_vars

\* ------------------------------------------------------------------------
\* Properties of the leader members (SpecCount)
\* ------------------------------------------------------------------------

FinalMembers ==
  IF pc = "c_done" THEN Val(leader["koyafuse"]).detected_members ELSE <<>>

\* C17: every member of the final leader-tracing result has either no tip
\* and no line, or at least one line; and whenever its unit_length is set,
\* its total_length is set and equals line_count * unit_length.
C17_LineCountAndTotalLength ==
  \A i \in 1..Len(FinalMembers) :
    /\ \/ FinalMembers[i].tip_count = 0 /\ FinalMembers[i].line_count = 0
       \/ FinalMembers[i].line_count >= 1
    /\ FinalMembers[i].unit_length # None =>
         FinalMembers[i].total_length =
           Some(FinalMembers[i].line_count * Val(FinalMembers[i].unit_length))

\* what holds of the code: a member with lines and a unit length has the
\* product as total length, and a member pointing along X has one line
\* per tip
TotalLengthOfCountedMembers ==
  \A i \in 1..Len(FinalMembers) :
    /\ FinalMembers[i].unit_length # None /\ FinalMembers[i].line_count >= 1 =>
         FinalMembers[i].total_length =
           Some(FinalMembers[i].line_count * Val(FinalMembers[i].unit_length))
    /\ FinalMembers[i].orientation # "y" =>
         FinalMembers[i].line_count = FinalMembers[i].tip_count

\* a frame member whose tip touches a line and that counts no line
TipWithoutLine ==
  \E i \in 1..Len(FinalMembers) :
    /\ FinalMembers[i].tip_count >= 1
    /\ FinalMembers[i].line_count = 0
    /\ FinalMembers[i].unit_length # None
    /\ FinalMembers[i].total_length = None

\* ------------------------------------------------------------------------
\* Concurrent analyses (main.py, analyze): every request runs
\* analyze_drawing on its own bytes.  The local variables of one call are a
\* frame; the state of the server is one frame per call.
\* ------------------------------------------------------------------------

NumCalls == 2

Calls == 1..NumCalls

Terminal == {"returned", "raised"}

\* the locals of a call that has just been dispatched on the bytes d
InitialFrame(d) ==
  [pc |-> "start", doc |-> d, handle |-> "none", raised |-> "",
   views |-> <<>>, grid |-> None, dimensions |-> <<>>, heights |-> <<>>,
   quality |-> None, matching |-> None, structural_model |-> None,
   quantity_takeoff |-> None, catalog_map |-> {}, leader |-> NoLeader]

Raise(s, stage) == [s EXCEPT !.pc = "raised", !.raised = stage]

\* Step 5 with the detection worked out
KoyafuseStep(s, r) ==
  IF r.raise THEN Raise(s, "koyafuse")
  ELSE IF r.result = None THEN [s EXCEPT !.pc = "axial_frame"]
  ELSE [s EXCEPT !.pc = "axial_frame",
                 !.catalog_map = CatalogNumbers,
                 !.leader = [@ EXCEPT !["koyafuse"] =
                    Some(_assign_lengths_and_weights(
                           Val(r.result), s.matching, CatalogNumbers))]]

\* Steps 5b-5f with the detection worked out
AxialStep(s, view, r) ==
  IF r.raise THEN Raise(s, view)
  ELSE IF r.result = None THEN [s EXCEPT !.pc = NextStage(view)]
  ELSE [s EXCEPT !.pc = NextStage(view),
                 !.leader = [@ EXCEPT ![view] =
                    Some(_assign_lengths_and_weights(
                           Val(r.result), s.matching, s.catalog_map))]]

\* one statement group of analyze_drawing on the locals s
StepOfCall(s) ==
  CASE s.pc = "start" ->
         IF s.doc.valid THEN [s EXCEPT !.handle = "open", !.pc = "page0"]
         ELSE Raise(s, "open")
    [] s.pc = "page0" ->
         IF s.doc.page_count >= 1 THEN [s EXCEPT !.pc = "render"]
         ELSE Raise(s, "page0")
    [] s.pc = "render" -> [s EXCEPT !.pc = "views"]
    [] s.pc = "views" -> [s EXCEPT !.views = s.doc.views, !.pc = "grids"]
    [] s.pc = "grids" -> [s EXCEPT !.grid = s.doc.grid, !.pc = "dimensions"]
    [] s.pc = "dimensions" ->
         [s EXCEPT !.dimensions = s.doc.dimensions, !.pc = "heights"]
    [] s.pc = "heights" ->
         [s EXCEPT !.heights = s.doc.heights, !.pc = "quality"]
    [] s.pc = "quality" ->
         [s EXCEPT !.quality = Some(run_quality_gates(s.views, s.grid,
                                                     s.dimensions, s.heights)),
                   !.pc = "matching"]
    [] s.pc = "matching" ->
         [s EXCEPT !.matching = run_matching(s.views, s.grid, s.dimensions,
                                             s.heights, s.doc.geo),
                   !.pc = "reconstruction"]
    [] s.pc = "reconstruction" ->
         [s EXCEPT !.structural_model =
                     IF s.matching # None
                     THEN reconstruct_3d(Val(s.matching), s.grid) ELSE None,
                   !.pc = "takeoff"]
    [] s.pc = "takeoff" ->
         [s EXCEPT !.quantity_takeoff =
                     IF s.structural_model # None
                     THEN Some(compute_quantity_takeoff(
                                 Val(s.structural_model), tolerance))
                     ELSE None,
                   !.pc = "koyafuse"]
    [] s.pc = "koyafuse" -> KoyafuseStep(s, detect_koyafuse_members(s.doc))
    [] s.pc \in LeaderViews \ {"koyafuse"} ->
         AxialStep(s, s.pc, detect_axial_frame(s.doc, s.pc))
    [] s.pc = "close" -> [s EXCEPT !.handle = "closed", !.pc = "assemble"]
    [] s.pc = "assemble" -> [s EXCEPT !.pc = "returned"]
    [] OTHER -> s

\* the locals of analyze_drawing in the one-call specification
FrameNow ==
  [pc |-> pc, doc |-> doc, handle |-> handle, raised |-> raised,
   views |-> views, grid |-> grid, dimensions |-> dimensions,
   heights |-> heights, quality |-> quality, matching |-> matching,
   structural_model |-> structural_model,
   quantity_takeoff |-> quantity_takeoff, catalog_map |-> catalog_map,
   leader |-> leader]

\* every step of the one-call specification is StepOfCall on its locals
StepOfCallIsNext == [][FrameNow' = StepOfCall(FrameNow)]_vars

MaxSteps == 19

\* analyze_drawing run alone on the bytes d, to its return or exception
RECURSIVE RunAlone(_, _)
RunAlone(s, n) ==
  IF n = 0 \/ s.pc \in Terminal THEN s ELSE RunAlone(StepOfCall(s), n - 1)

Alone(d) == RunAlone(InitialFrame(d), MaxSteps)

\* a variant in which the catalog map is one dict shared by all the calls
FrameOf_shared_catalog(c) ==
  [pc |-> pc[c], doc |-> doc[c], handle |-> handle[c], raised |-> raised[c],
   views |-> views[c], grid |-> grid[c], dimensions |-> dimensions[c],
   heights |-> heights[c], quality |-> quality[c], matching |-> matching[c],
   structural_model |-> structural_model[c],
   quantity_takeoff |-> quantity_takeoff[c],
   catalog_map |-> UNION {catalog_map[d] : d \in Calls},
   leader |-> leader[c]]

\* the frame of call c in the server state
FrameOf(c) ==
  [pc |-> pc[c], doc |-> doc[c], handle |-> handle[c], raised |-> raised[c],
   views |-> views[c], grid |-> grid[c], dimensions |-> dimensions[c],
   heights |-> heights[c], quality |-> quality[c], matching |-> matching[c],
   structural_model |-> structural_model[c],
   quantity_takeoff |-> quantity_takeoff[c], catalog_map |-> catalog_map[c],
   leader |-> leader[c]]

\* the uploads: not a PDF, a single plan page, a 小屋伏図 with members, one
\* whose line widths make the detection raise, and axial-frame pages only
ConcGrid == Some([x_labels |-> <<Label(100, TRUE), Label(300, TRUE)>>,
                  y_labels |-> <<Label(100, TRUE), Label(400, FALSE)>>])

ConcPage(fill, bbox, members) ==
  [found |-> TRUE, fill |-> fill, bbox |-> bbox, members |-> members]

ConcDocument(n, kf, ay, ax) ==
  Document(TRUE, n, <<View("FLOOR_PLAN"), View("ELEVATION")>>, ConcGrid,
           Rep(Dim(100), 5),
           <<Height("EAVE_HEIGHT", Some(300)), Height("MAX_HEIGHT", Some(500))>>,
           FullGeo, kf, ay, ax)

ConcDocuments ==
  << Document(FALSE, 0, <<>>, None, <<>>, <<>>, FullGeo, NoPage, NoPage, NoPage),
    ConcDocument(1, NoPage, NoPage, NoPage),
    ConcDocument(3, ConcPage(FALSE, {"koyafuse"}, <<LeaderMember>>),
                 ConcPage(FALSE, {"axial_frame"}, <<PurlinMember>>), NoPage),
    ConcDocument(3, ConcPage(TRUE, {"koyafuse"}, <<LeaderMember>>),
                 NoPage, NoPage),
    ConcDocument(3, NoPage,
                 ConcPage(FALSE, {"axial_frame", "axial_frame_y2"},
                          <<PurlinMember>>),
                 ConcPage(FALSE, {"axial_frame_x1"}, <<LeaderMember>>)) >>

\* the result of each upload analysed alone
AloneOf == [i \in 1..Len(ConcDocuments) |-> Alone(ConcDocuments[i])]

InitConc ==
  \* the calls are interchangeable: uploads in the order of ConcDocuments
  /\ \E f \in [Calls -> 1..Len(ConcDocuments)] :
       /\ \A c \in Calls \ {1} : f[c - 1] <= f[c]
       /\ doc = [c \in Calls |-> ConcDocuments[f[c]]]
  /\ pc = [c \in Calls |-> "start"]
  /\ handle = [c \in Calls |-> "none"]
  /\ raised = [c \in Calls |-> ""]
  /\ views = [c \in Calls |-> <<>>]
  /\ grid = [c \in Calls |-> None]
  /\ dimensions = [c \in Calls |-> <<>>]
  /\ heights = [c \in Calls |-> <<>>]
  /\ quality = [c \in Calls |-> None]
  /\ matching = [c \in Calls |-> None]
  /\ structural_model = [c \in Calls |-> None]
  /\ quantity_takeoff = [c \in Calls |-> None]
  /\ catalog_map = [c \in Calls |-> {}]
  /\ leader = [c \in Calls |-> NoLeader]
  /\ xf = NoXf

\* call c stores the new values n of its locals
Store(c, n) ==
  /\ pc' = [pc EXCEPT ![c] = n.pc]
  /\ handle' = [handle EXCEPT ![c] = n.handle]
  /\ raised' = [raised EXCEPT ![c] = n.raised]
  /\ views' = [views EXCEPT ![c] = n.views]
  /\ grid' = [grid EXCEPT ![c] = n.grid]
  /\ dimensions' = [dimensions EXCEPT ![c] = n.dimensions]
  /\ heights' = [heights EXCEPT ![c] = n.heights]
  /\ quality' = [quality EXCEPT ![c] = n.quality]
  /\ matching' = [matching EXCEPT ![c] = n.matching]
  /\ structural_model' = [structural_model EXCEPT ![c] = n.structural_model]
  /\ quantity_takeoff' = [quantity_takeoff EXCEPT ![c] = n.quantity_takeoff]
  /\ catalog_map' = [catalog_map EXCEPT ![c] = n.catalog_map]
  /\ leader' = [leader EXCEPT ![c] = n.leader]

\* call c executes the statement group it stands at: the new values of its
\* locals are computed from its own frame
Advance(c, stages) ==
  /\ pc[c] \in stages
  /\ Store(c, StepOfCall(FrameOf(c)))
  /\ UNCHANGED <<doc, xf>>

ConcOpen == \E c \in Calls : Advance(c, {"start", "page0", "render"})

ConcExtract ==
  \E c \in Calls : Advance(c, {"views", "grids", "dimensions", "heights"})

ConcQuality == \E c \in Calls : Advance(c, {"quality"})

ConcMatching == \E c \in Calls : Advance(c, {"matching"})

ConcReconstruction == \E c \in Calls : Advance(c, {"reconstruction"})

ConcTakeoff == \E c \in Calls : Advance(c, {"takeoff"})

ConcKoyafuse == \E c \in Calls : Advance(c, {"koyafuse"})

ConcAxial == \E c \in Calls : Advance(c, LeaderViews \ {"koyafuse"})

ConcClose == \E c \in Calls : Advance(c, {"close"})

ConcReturn == \E c \in Calls : Advance(c, {"assemble"})

NextConc ==
  \/ ConcOpen
  \/ ConcExtract
  \/ ConcQuality
  \/ ConcMatching
  \/ ConcReconstruction
  \/ ConcTakeoff
  \/ ConcKoyafuse
  \/ ConcAxial
  \/ ConcClose
  \/ ConcReturn

SpecConc == InitConc /\ [][NextConc]_vars

\* ------------------------------------------------------------------------
\* Properties of concurrent analyses (SpecConc)
\* ------------------------------------------------------------------------

\* a step changes the locals of one call only
OneCallMoves ==
  \E c \in Calls : \A d \in Calls \ {c} :
    /\ pc'[d] = pc[d] /\ handle'[d] = handle[d] /\ raised'[d] = raised[d]
    /\ views'[d] = views[d] /\ grid'[d] = grid[d]
    /\ dimensions'[d] = dimensions[d] /\ heights'[d] = heights[d]
    /\ quality'[d] = quality[d] /\ matching'[d] = matching[d]
    /\ structural_model'[d] = structural_model[d]
    /\ quantity_takeoff'[d] = quantity_takeoff[d]
    /\ catalog_map'[d] = catalog_map[d] /\ leader'[d] = leader[d]

\* the handle, result and catalog map of a finished call are those of the
\* call run alone on the same bytes
SameAsAlone(c) ==
  pc[c] \in Terminal =>
    AloneOf[CHOOSE i \in 1..Len(ConcDocuments) : ConcDocuments[i] = doc[c]] =
      [pc |-> pc[c], doc |-> doc[c], handle |-> handle[c],
       raised |-> raised[c], views |-> views[c], grid |-> grid[c],
       dimensions |-> dimensions[c], heights |-> heights[c],
       quality |-> quality[c], matching |-> matching[c],
       structural_model |-> structural_model[c],
       quantity_takeoff |-> quantity_takeoff[c],
       catalog_map |-> catalog_map[c], leader |-> leader[c]]

\* a handle is opened by the call it belongs to, after that call started
OwnHandle(c) == handle[c] # "none" => pc[c] # "start" /\ doc[c].valid

BayPitchParamsOut ==
  SelectSeq(Val(matching).anchored_params, LAMBDA p : p.name = "bay_pitch")

PitchOrRepeat ==
  SelectSeq(doc.dimensions, LAMBDA d : d.dim_type \in {"PITCH", "REPEAT"})

\* C21: when a PITCH or REPEAT dimension exists, bay_pitch is the value of
\* such a dimension (a REPEAT alone is enough); only when neither exists
\* is it computed from the spacings of the numeric X labels, and then only
\* with at least 3 X labels whose spacings are within 10% of their mean.
C21_BayPitchFromPitchOrRepeat ==
  MatchingDone =>
    /\ Len(BayPitchParamsOut) <= 1
    /\ PitchOrRepeat # <<>> =>
         /\ Len(BayPitchParamsOut) = 1
         /\ ~BayPitchParamsOut[1].computed
         /\ \E i \in 1..Len(PitchOrRepeat) :
              Val(matching).bay_pitch = Some(PitchOrRepeat[i].value)
    /\ PitchOrRepeat = <<>> /\ BayPitchParamsOut # <<>> =>
         /\ BayPitchParamsOut[1].computed
         /\ Len(Val(doc.grid).x_labels) >= 3
         /\ BayPitchParamsOut =
              PitchFromSpacings(
                NumericSpacings(SortedBy(Val(doc.grid).x_labels,
                                         LAMBDA gl : gl.position)),
                Val(PlanScale(_find_plan_view(doc.views))))

\* the same with PITCH dimensions only, as the code reads it
BayPitchFromPitchOnly ==
  MatchingDone =>
    /\ Len(BayPitchParamsOut) <= 1
    /\ (\E i \in 1..Len(doc.dimensions) : doc.dimensions[i].dim_type = "PITCH")
         => Val(matching).bay_pitch =
              Some(SelectSeq(doc.dimensions,
                     LAMBDA d : d.dim_type = "PITCH")[1].value)
    /\ (\A i \in 1..Len(doc.dimensions) : doc.dimensions[i].dim_type # "PITCH")
         /\ BayPitchParamsOut # <<>> =>
         /\ BayPitchParamsOut[1].computed
         /\ Len(Val(doc.grid).x_labels) >= 3

\* ------------------------------------------------------------------------
\* run_matching on drawings chosen for the bay count
\*   6060 is 2.02 pitches of 3000, 8000 is 4 pitches of 2000
\* ------------------------------------------------------------------------

BayPool ==
  << MDim(3000, "PITCH", None, "ELEVATION", <<400, 500>>),
     MDim(2000, "PITCH", None, "FLOOR_PLAN", <<200, 50>>),
     MDim(2000, "REPEAT", Some(5), "FLOOR_PLAN", <<200, 60>>),
     MDim(2000, "REPEAT", None, "FLOOR_PLAN", <<200, 70>>),
     MDim(10000, "SINGLE", None, "FLOOR_PLAN", <<200, 250>>),
     MDim(6060, "SINGLE", None, "FLOOR_PLAN", <<200, 260>>),
     MDim(8000, "SINGLE", None, "FLOOR_PLAN", <<200, 270>>),
     MDim(5000, "SINGLE", None, "FLOOR_PLAN", <<200, 150>>) >>

InitBays ==
  /\ pc = "m_call"
  /\ \E vl \in PlanVLines, g \in MatchGrids \ {None},
        picked \in SUBSET (1..Len(BayPool)) :
       \E plan \in PlanViews(<<>>, vl) :
         doc = [rot |-> 0, grid |-> g,
                views |-> plan \o
                  << MView("ELEVATION", BBox(0, 300, 800, 600), None, <<>>,
                           XNames, <<>>) >>,
                dimensions |-> SelectSeq(BayPool, LAMBDA d :
                                 \E i \in picked : BayPool[i] = d)]
  /\ matching = None
  /\ grid = None
  /\ dimensions = <<>>
  /\ views = <<>>
  /\ handle = "none"
  /\ raised = ""
  /\ heights = <<>>
  /\ quality = None
  /\ structural_model = None
  /\ quantity_takeoff = None
  /\ catalog_map = {}
  /\ leader = NoLeader
  /\ xf = NoXf

SpecBays == InitBays /\ [][NextMatch]_vars

BayCountParamsOut ==
  SelectSeq(Val(matching).anchored_params, LAMBDA p : p.name = "bay_count")

\* the REPEAT dimensions that carry a count
CountedRepeats ==
  SelectSeq(doc.dimensions, LAMBDA d :
    d.dim_type = "REPEAT" /\ Truthy(d.repeat_count))

\* the single bay_count parameter is n, and so is the reported bay_count
BayCountIs(n, computed) ==
  /\ Len(BayCountParamsOut) = 1
  /\ BayCountParamsOut[1].value = n
  /\ BayCountParamsOut[1].computed = computed
  /\ Val(matching).bay_count = IF n = 0 THEN None ELSE Some(n)

\* v / p is within pct hundredths of the integer n
WithinOfInteger(v, p, n, pct) == 100 * AbsDiff(v, n * p) < pct * p

\* length / pitch is within 0.15 of an integer
LengthOverPitch ==
  /\ Truthy(Val(matching).length)
  /\ \E n \in 0..20 :
       WithinOfInteger(Val(Val(matching).length),
                       Val(Val(matching).bay_pitch), n, 15)

\* the SINGLE dimensions d with 2 * pitch <= d < length whose d / pitch is
\* within 0.05 of an integer
CleanMultiples ==
  SelectSeq(doc.dimensions, LAMBDA d :
    /\ d.dim_type = "SINGLE"
    /\ d.value >= 2 * Val(Val(matching).bay_pitch)
    /\ Truthy(Val(matching).length) => d.value < Val(Val(matching).length)
    /\ \E n \in 0..20 :
         WithinOfInteger(d.value, Val(Val(matching).bay_pitch), n, 5))

C22_LengthWitness ==
  /\ MatchingDone
  /\ CountedRepeats = <<>>
  /\ Truthy(Val(matching).bay_pitch)
  /\ LengthOverPitch
  /\ \E i \in 1..Len(doc.dimensions) : doc.dimensions[i].dim_type = "REPEAT"
  /\ BayCountIs(5, TRUE)

\* ------------------------------------------------------------------------
\* run_matching on drawings chosen for the consistency checks:
\*   zero, one or two elevation views whose side comes from the title, from
\*   the labels they carry, or from nowhere
\* ------------------------------------------------------------------------

\* an elevation view: the side its title names, its X and its Y labels
SideView(title_side, xl, yl) ==
  [MView("ELEVATION", BBox(0, 300, 800, 600), None, <<>>, xl, yl)
     EXCEPT !.title_side = title_side]

SideViews ==
  {SideView(Some("Y1"), XNames, <<>>), SideView(Some("X1"), <<>>, YNames),
   SideView(None, XNames, <<>>), SideView(None, <<>>, YNames),
   SideView(None, XNames, YNames), SideView(None, <<>>, <<>>)}

MaxElevations == 2

ElevationLists ==
  UNION {[1..n -> SideViews] : n \in 0..MaxElevations}

SidePool ==
  << MDim(10000, "SINGLE", None, "SECTION", <<600, 100>>),
     MDim(2000, "PITCH", None, "FLOOR_PLAN", <<200, 50>>),
     MDim(2000, "REPEAT", Some(5), "FLOOR_PLAN", <<200, 60>>),
     MDim(8000, "SINGLE", None, "FLOOR_PLAN", <<200, 270>>) >>

InitSides ==
  /\ pc = "m_call"
  /\ \E elevs \in ElevationLists, g \in MatchGrids \ {None},
        picked \in SUBSET (1..Len(SidePool)) :
       \E plan \in PlanViews(<<>>, <<>>) :
         doc = [rot |-> 0, grid |-> g,
                views |-> plan \o
                  << MView("SECTION", BBox(400, 0, 800, 300), None, <<>>,
                           <<>>, YNames) >> \o elevs,
                dimensions |-> SelectSeq(SidePool, LAMBDA d :
                                 \E i \in picked : SidePool[i] = d)]
  /\ matching = None
  /\ grid = None
  /\ dimensions = <<>>
  /\ views = <<>>
  /\ handle = "none"
  /\ raised = ""
  /\ heights = <<>>
  /\ quality = None
  /\ structural_model = None
  /\ quantity_takeoff = None
  /\ catalog_map = {}
  /\ leader = NoLeader
  /\ xf = NoXf

SpecSides == InitSides /\ [][NextMatch]_vars

ChecksNamed(name) ==
  SelectSeq(Val(matching).consistency_checks, LAMBDA c : c.name = name)

ElevationsOfDoc ==
  SelectSeq(doc.views, LAMBDA v : v.view_type = "ELEVATION")

\* the sides detected on the elevation views: title first, labels second
SidesDetected ==
  {Val(s) : s \in {IF ElevationsOfDoc[i].title_side # None
                   THEN ElevationsOfDoc[i].title_side
                   ELSE _infer_elevation_side(ElevationsOfDoc[i].x_labels,
                                              ElevationsOfDoc[i].y_labels) :
                     i \in 1..Len(ElevationsOfDoc)} \ {None}}

SidesStatus ==
  IF Cardinality(SidesDetected) >= 2 THEN "PASS"
  ELSE IF Cardinality(SidesDetected) = 1 THEN "WARN" ELSE "FAIL"

\* how many of span, length, bay_pitch, bay_count are anchored
ParamsPresent ==
  Cardinality({n \in {"span", "length", "bay_pitch", "bay_count"} :
                 _get_param(Val(matching).anchored_params, n) # None})

ParamsStatus ==
  IF ParamsPresent = 4 THEN "PASS"
  ELSE IF ParamsPresent >= 2 THEN "WARN" ELSE "FAIL"

BuildingParametersChecked ==
  /\ Len(ChecksNamed("Building parameters")) = 1
  /\ ChecksNamed("Building parameters")[1].status = ParamsStatus

\* C23: every MatchingResult carries the elevation-sides check (PASS with
\* two or more distinct sides, WARN with one, FAIL otherwise, also when the
\* drawing has no elevation view) and the building-parameters check (PASS
\* with all four of span, length, pitch, bay_count, WARN with two or three,
\* FAIL otherwise)
C23_SidesAndParametersChecks ==
  MatchingDone =>
    /\ Len(ChecksNamed("Elevation sides identified")) = 1
    /\ ChecksNamed("Elevation sides identified")[1].status = SidesStatus
    /\ BuildingParametersChecked

\* C23 as the code has it: the elevation-sides check is made only of a
\* drawing that has an elevation view
SidesCheckedWhenElevationsExist ==
  MatchingDone =>
    /\ ElevationsOfDoc # <<>> =>
         /\ Len(ChecksNamed("Elevation sides identified")) = 1
         /\ ChecksNamed("Elevation sides identified")[1].status = SidesStatus
    /\ ElevationsOfDoc = <<>> => ChecksNamed("Elevation sides identified") = <<>>
    /\ BuildingParametersChecked

\* a drawing without elevation views went through run_matching
C23_NoElevationMatched ==
  MatchingDone /\ ElevationsOfDoc = <<>>

\* two sides were told apart and all four parameters were found
C23_Witness ==
  /\ MatchingDone
  /\ Cardinality(SidesDetected) >= 2
  /\ ParamsPresent = 4
  /\ ChecksNamed("Elevation sides identified")[1].status = "PASS"

\* ------------------------------------------------------------------------
\* extract_grid_system on several views (grids.py)
\*   segment_views returns either the whole page as one UNKNOWN view or
\*   one view per title found, of the four named types
\* ------------------------------------------------------------------------

MaxGridViews == 2

GSpan(text, x, y) == [text |-> text, center |-> <<x, y>>, line |-> None]

\* the texts of a view: none, X1, X1 elsewhere and X2, Y1 and X1 twice
ViewTexts ==
  {<<>>,
   << GSpan(<<"X", "1">>, 100, 300) >>,
   << GSpan(<<"X", "1">>, 300, 100), GSpan(<<"X", "2">>, 200, 100) >>,
   << GSpan(<<"Y", "1">>, 50, 250), GSpan(<<"X", "1">>, 400, 100),
      GSpan(<<"x", "1">>, 500, 100) >>}

TitledViews ==
  {[view_type |-> t, texts |-> texts] :
     t \in {"FLOOR_PLAN", "ELEVATION", "SECTION", "ROOF_PLAN"},
     texts \in ViewTexts}

InitGridViews ==
  /\ pc = "g_call"
  /\ \E rot \in {0, 90} :
       \/ \E n \in 1..MaxGridViews : \E vs \in [1..n -> TitledViews] :
            doc = [rot |-> rot, views |-> vs]
       \/ \E texts \in ViewTexts :
            doc = [rot |-> rot,
                   views |-> <<[view_type |-> "UNKNOWN", texts |-> texts]>>]
  /\ grid = None
  /\ dimensions = <<>>
  /\ views = <<>>
  /\ handle = "none"
  /\ raised = ""
  /\ heights = <<>>
  /\ quality = None
  /\ matching = None
  /\ structural_model = None
  /\ quantity_takeoff = None
  /\ catalog_map = {}
  /\ leader = NoLeader
  /\ xf = NoXf

SpecGridViews == InitGridViews /\ [][NextGrid]_vars

\* the views in the order the priority loop visits them
PriorityViews ==
  ViewsOfType(doc.views, "FLOOR_PLAN") \o ViewsOfType(doc.views, "ELEVATION")

\* the views that contribute labels, in the order they do
ContributingViews ==
  IF \E i \in 1..Len(PriorityViews) :
       LabelsOfView(PriorityViews[i], doc.rot) # <<>>
  THEN PriorityViews ELSE doc.views

Contributed == LabelsOfViews(ContributingViews, doc.rot)

GridLabelsOut == Val(grid).x_labels \o Val(grid).y_labels

\* C24: in the GridSystem every label name appears once, the survivor being
\* the first occurrence over floor plans (in view order) then elevations;
\* other views contribute only when no floor plan and no elevation yields a
\* label; source_view is the type of the first view that contributed
C24_FirstOccurrenceByViewPriority ==
  pc = "g_done" /\ grid # None =>
    /\ \A i, j \in 1..Len(GridLabelsOut) :
         GridLabelsOut[i].label = GridLabelsOut[j].label => i = j
    /\ \A i \in 1..Len(GridLabelsOut) :
         \E k \in 1..Len(Contributed) :
            /\ Contributed[k] = GridLabelsOut[i]
            /\ \A m \in 1..(k - 1) :
                 Contributed[m].label # GridLabelsOut[i].label
    /\ \A k \in 1..Len(Contributed) :
         \E i \in 1..Len(GridLabelsOut) :
            GridLabelsOut[i].label = Contributed[k].label
    /\ \E k \in 1..Len(ContributingViews) :
         /\ LabelsOfView(ContributingViews[k], doc.rot) # <<>>
         /\ \A m \in 1..(k - 1) :
              LabelsOfView(ContributingViews[m], doc.rot) = <<>>
         /\ Val(grid).source_view = ContributingViews[k].view_type

\* an elevation listed before a floor plan that places X1 elsewhere: the
\* floor plan's X1 survives
C24_Witness ==
  /\ pc = "g_done" /\ grid # None
  /\ Len(doc.views) >= 2
  /\ doc.views[1].view_type = "ELEVATION"
  /\ doc.views[2].view_type = "FLOOR_PLAN"
  /\ \E a \in 1..Len(LabelsOfView(doc.views[1], doc.rot)),
        b \in 1..Len(LabelsOfView(doc.views[2], doc.rot)) :
       /\ LabelsOfView(doc.views[1], doc.rot)[a].label = <<"X", "1">>
       /\ LabelsOfView(doc.views[2], doc.rot)[b].label = <<"X", "1">>
       /\ LabelsOfView(doc.views[1], doc.rot)[a].position
            # LabelsOfView(doc.views[2], doc.rot)[b].position
       /\ \E i \in 1..Len(Val(grid).x_labels) :
            Val(grid).x_labels[i] = LabelsOfView(doc.views[2], doc.rot)[b]
  /\ Val(grid).source_view = "FLOOR_PLAN"

\* a section supplied the grid because plan and elevation had no label
C24_FallbackWitness ==
  /\ pc = "g_done" /\ grid # None
  /\ PriorityViews # <<>>
  /\ Val(grid).source_view = "SECTION"

\* ------------------------------------------------------------------------
\* analyze_drawing on documents chosen for the lengths and weights of the
\* traced members: a member number inside or outside the catalog, of a
\* truss or of a plain section, each orientation, with and without lines,
\* and a matching result that lacks the span or the length
\* ------------------------------------------------------------------------

TracedNumbers == {"1", "4", "13"}

TracedMembers ==
  [member_number : TracedNumbers, orientation : {"x", "y", ""},
   tip_count : {1}, line_count : {0, 2}]

TracedPage(viewset, m) ==
  [found |-> TRUE, fill |-> FALSE, bbox |-> viewset, members |-> <<m>>]

LeaderGeo ==
  [span : OptOf({600}), length : OptOf({705}), bay_pitch : {Some(400)},
   bay_count : {Some(2)}]

TracedDocuments ==
  {Document(TRUE, 3, <<View("FLOOR_PLAN"), View("ELEVATION")>>, g,
            Rep(Dim(100), 5),
            <<Height("EAVE_HEIGHT", Some(300)), Height("MAX_HEIGHT", Some(500))>>,
            geo, kf,
            TracedPage({"axial_frame", "axial_frame_y2"}, m),
            TracedPage({"axial_frame_x1", "axial_frame_xn1", "axial_frame_x2xn"}, m))
     : g \in GridInputs, geo \in LeaderGeo, m \in TracedMembers,
       kf \in {NoPage, TracedPage({"koyafuse"}, LeaderMember)}}

InitLeader ==
  /\ doc \in TracedDocuments
  /\ pc = "start"
  /\ handle = "none"
  /\ raised = ""
  /\ views = <<>>
  /\ grid = None
  /\ dimensions = <<>>
  /\ heights = <<>>
  /\ quality = None
  /\ matching = None
  /\ structural_model = None
  /\ quantity_takeoff = None
  /\ catalog_map = {}
  /\ leader = NoLeader
  /\ xf = NoXf

SpecLeader == InitLeader /\ [][Next]_vars

\* the stages of analyze_drawing up to and including run_matching
UpToMatching ==
  {"start", "page0", "render", "views", "grids", "dimensions", "heights",
   "quality", "matching"}

\* the unit length the member is to get from the matching result
UnitLengthFor(m) ==
  IF matching = None THEN None
  ELSE IF m.orientation = "x" /\ Truthy(Val(matching).length)
       THEN Val(matching).length
  ELSE IF m.orientation = "y" /\ Truthy(Val(matching).span)
       THEN Val(matching).span
  ELSE None

\* the unit weight the catalog entries in numbers give the member
UnitWeightFor(m, numbers) ==
  IF m.member_number \notin numbers THEN None
  ELSE IF m.member_number \in TrussNumbers
       THEN Some(<<"lattice_weight_per_m", m.member_number>>)
       ELSE Some(<<"unit_weight", m.member_number>>)

\* m, a member of a leader-tracing result, was post-processed with the
\* catalog entries in numbers
PostProcessed(m, numbers) ==
  /\ m.unit_length = UnitLengthFor(m)
  /\ m.unit_weight = UnitWeightFor(m, numbers)
  /\ m.member_number \in numbers /\ m.member_number \in TrussNumbers
       => m.member_kind = "lattice"
  /\ m.total_weight # None <=> m.total_length # None /\ m.unit_weight # None
  /\ m.total_weight # None
       => m.total_weight = Some(<<Val(m.total_length), Val(m.unit_weight)>>)

\* C25: leader post-processing runs after matching, and every detected
\* member of every leader-tracing result has unit_length from matching.span
\* (y) or matching.length (x), unit_weight from its catalog entry (the
\* lattice weight, with member_kind lattice, for a truss) and total_weight
\* exactly when total_length and unit_weight are set
C25_LengthsAndWeightsOfTracedMembers ==
  \A v \in LeaderViews :
     leader[v] # None =>
       /\ pc \notin UpToMatching
       /\ \A i \in 1..Len(Val(leader[v]).detected_members) :
            PostProcessed(Val(leader[v]).detected_members[i], CatalogNumbers)

\* the same with the catalog entries that analyze_drawing has loaded by then
PostProcessedWithLoadedCatalog ==
  \A v \in LeaderViews :
     leader[v] # None =>
       /\ pc \notin UpToMatching
       /\ \A i \in 1..Len(Val(leader[v]).detected_members) :
            PostProcessed(Val(leader[v]).detected_members[i],
                          IF v = "koyafuse" THEN CatalogNumbers ELSE catalog_map)

AxialViews == LeaderViews \ {"koyafuse"}

\* C27: a member of an axial-frame result whose number is in the catalog
\* has section_text and unit_weight, with or without a roof-framing result
C27_AxialWeightsWithoutRoofPlan ==
  \A v \in AxialViews :
     leader[v] # None =>
       \A i \in 1..Len(Val(leader[v]).detected_members) :
          Val(leader[v]).detected_members[i].member_number \in CatalogNumbers
            => /\ Val(leader[v]).detected_members[i].section_text # None
               /\ Val(leader[v]).detected_members[i].unit_weight # None

\* the same when the roof-framing plan gave a result
AxialWeightsWithRoofPlan ==
  leader["koyafuse"] # None =>
    \A v \in AxialViews :
       leader[v] # None =>
         \A i \in 1..Len(Val(leader[v]).detected_members) :
            Val(leader[v]).detected_members[i].member_number \in CatalogNumbers
              => /\ Val(leader[v]).detected_members[i].section_text # None
                 /\ Val(leader[v]).detected_members[i].unit_weight # None

\* an axial-frame member of the catalog was traced in a document that has
\* no roof-framing plan
AxialWithoutRoofPlan ==
  /\ pc = "returned"
  /\ leader["koyafuse"] = None
  /\ \E v \in AxialViews :
       /\ leader[v] # None
       /\ Val(leader[v]).detected_members[1].member_number \in CatalogNumbers

\* ------------------------------------------------------------------------
\* Step E: extract_heights (heights.py)
\*   view : [view_type, texts]; a text span is [match, at] where match is
\*   what _match_height_text returns for it ([height_type, value], or None
\*   when no pattern matches) and at is the place of the span on the page
\* ------------------------------------------------------------------------

HSpan(height_type, value, at) ==
  [match |-> Some([height_type |-> height_type, value |-> value]), at |-> at]

NoHeightSpan(at) == [match |-> None, at |-> at]

HeightParam(span, source_view) ==
  [height_type |-> Val(span.match).height_type, value |-> Val(span.match).value,
   text_span |-> span, source_view |-> source_view]

\* _extract_from_view with source_view set by the caller
HeightsOfView(view) ==
  LET hits == SelectSeq(view.texts, LAMBDA s : s.match # None)
  IN [k \in 1..Len(hits) |-> HeightParam(hits[k], view.view_type)]

priority_views_view_order(vs) == vs

\* sorted() is stable: elevations and sections first, each group in order
priority_views(vs) ==
  SelectSeq(vs, LAMBDA v : v.view_type \in {"ELEVATION", "SECTION"})
    \o SelectSeq(vs, LAMBDA v : v.view_type \notin {"ELEVATION", "SECTION"})

RECURSIVE HeightsOfViews(_)
HeightsOfViews(vs) ==
  IF vs = <<>> THEN <<>>
  ELSE HeightsOfView(Head(vs)) \o HeightsOfViews(Tail(vs))

\* a height is skipped when its type was seen and is not GL or FL
KeepUnseen(hs) ==
  LET keep == SelectSeq([i \in 1..Len(hs) |-> i],
                LAMBDA i : \/ hs[i].height_type \in {"GL", "FL"}
                           \/ \A j \in 1..(i - 1) :
                                hs[j].height_type # hs[i].height_type)
  IN [k \in 1..Len(keep) |-> hs[keep[k]]]

extract_heights(vs) == KeepUnseen(HeightsOfViews(priority_views(vs)))

MaxHeightViews == 2

\* the texts of a view, by the place of the view on the page
HeightTexts(at) ==
  {<<>>,
   << HSpan("EAVE_HEIGHT", Some(3000), at) >>,
   << HSpan("GL", None, at), HSpan("EAVE_HEIGHT", Some(3200), at + 1),
      HSpan("EAVE_HEIGHT", Some(3300), at + 2),
      HSpan("MAX_HEIGHT", Some(5000), at + 3) >>,
   << NoHeightSpan(at), HSpan("DESIGN_GL", None, at + 1),
      HSpan("FL", Some(1), at + 2), HSpan("GL", None, at + 3),
      HSpan("MAX_HEIGHT", Some(5200), at + 4) >>}

HeightViewTypes == {"ELEVATION", "SECTION", "FLOOR_PLAN", "ROOF_PLAN"}

InitHeights ==
  /\ pc = "h_call"
  /\ \E n \in 1..MaxHeightViews :
       \E types \in [1..n -> HeightViewTypes],
          picks \in [1..n -> 1..4] :
          doc = [views |->
                   [i \in 1..n |->
                      [view_type |-> types[i],
                       texts |-> CHOOSE t \in HeightTexts(10 * i) :
                                   Len(t) = <<0, 1, 4, 5>>[picks[i]]]]]
  /\ heights = <<>>
  /\ grid = None
  /\ dimensions = <<>>
  /\ views = <<>>
  /\ handle = "none"
  /\ raised = ""
  /\ quality = None
  /\ matching = None
  /\ structural_model = None
  /\ quantity_takeoff = None
  /\ catalog_map = {}
  /\ leader = NoLeader
  /\ xf = NoXf

ExtractHeights ==
  /\ pc = "h_call"
  /\ heights' = extract_heights(doc.views)
  /\ pc' = "h_done"
  /\ UNCHANGED <<doc, grid, dimensions, views, handle, raised, quality,
                 matching, structural_model, quantity_takeoff, catalog_map,
                 leader, xf>>

NextHeights == ExtractHeights

SpecHeights == InitHeights /\ [][NextHeights]_vars

\* the spans of view i that match height type t, in text order
SpansOfType(i, t) ==
  SelectSeq(doc.views[i].texts,
            LAMBDA s : s.match # None /\ Val(s.match).height_type = t)

\* the views that show type t, among elevations and sections or among the rest
ViewsShowing(t, elevation_or_section) ==
  {i \in 1..Len(doc.views) :
     /\ SpansOfType(i, t) # <<>>
     /\ (doc.views[i].view_type \in {"ELEVATION", "SECTION"})
          = elevation_or_section}

\* the view whose first span of type t is to be kept
KeptView(t) ==
  IF ViewsShowing(t, TRUE) # {} THEN Min(ViewsShowing(t, TRUE))
  ELSE Min(ViewsShowing(t, FALSE))

HeightsOfType(t) == SelectSeq(heights, LAMBDA h : h.height_type = t)

SpansInAllViews(t) ==
  LET n[i \in 0..Len(doc.views)] ==
        IF i = 0 THEN 0 ELSE n[i - 1] + Len(SpansOfType(i, t))
  IN n[Len(doc.views)]

\* C26: at most one EAVE_HEIGHT, MAX_HEIGHT and DESIGN_GL over all views,
\* every GL and FL kept; the kept one comes from an elevation or section
\* view when one shows the kind, and from the earliest view (its first
\* span) among views of equal priority
C26_HeightsKeptByPriority ==
  pc = "h_done" =>
    /\ \A t \in {"EAVE_HEIGHT", "MAX_HEIGHT", "DESIGN_GL"} :
         /\ Len(HeightsOfType(t)) <= 1
         /\ ViewsShowing(t, TRUE) \cup ViewsShowing(t, FALSE) # {} =>
              /\ Len(HeightsOfType(t)) = 1
              /\ HeightsOfType(t)[1].text_span = SpansOfType(KeptView(t), t)[1]
              /\ HeightsOfType(t)[1].source_view
                   = doc.views[KeptView(t)].view_type
    /\ \A t \in {"GL", "FL"} : Len(HeightsOfType(t)) = SpansInAllViews(t)

\* a floor plan listed first and an elevation listed second both show the
\* eave height; the elevation's is kept
C26_Witness ==
  /\ pc = "h_done"
  /\ Len(doc.views) >= 2
  /\ doc.views[1].view_type = "FLOOR_PLAN"
  /\ doc.views[2].view_type = "ELEVATION"
  /\ SpansOfType(1, "EAVE_HEIGHT") # <<>>
  /\ Len(SpansOfType(2, "EAVE_HEIGHT")) >= 2
  /\ HeightsOfType("EAVE_HEIGHT")[1].text_span = SpansOfType(2, "EAVE_HEIGHT")[1]
  /\ Len(HeightsOfType("GL")) >= 1

\* ------------------------------------------------------------------------
\* The mediabox -> visual transform of leader tracing (koyafuse.py), used
\* by _extract_visual_texts and _extract_visual_lines of koyafuse.py and,
\* through _detect_for_bbox, of axial_frame.py; it is given the media-box
\* width only
\*   xf = [rot, mw, mh, from, p, q, r]: p a mediabox point, q its image by
\*   koyafuse._to_visual and r its image by views._to_visual
\* ------------------------------------------------------------------------

koyafuse_to_visual(mx, my, rot, mw) ==
  IF rot = 270 THEN <<my, FSub(mw, mx)>>
  ELSE IF rot = 90 THEN <<FSub(mw, my), mx>>
  ELSE IF rot = 180 THEN <<FSub(mw, mx), FSub(mw, my)>>
  ELSE <<mx, my>>

InitTrace ==
  /\ pc = "kx_call"
  /\ xf \in {i \in XfInputs : i.from = "mediabox" /\ OnPage(i)}
  /\ doc = <<>>
  /\ handle = "none"
  /\ raised = ""
  /\ views = <<>>
  /\ grid = None
  /\ dimensions = <<>>
  /\ heights = <<>>
  /\ quality = None
  /\ matching = None
  /\ structural_model = None
  /\ quantity_takeoff = None
  /\ catalog_map = {}
  /\ leader = NoLeader

\* the same point through the transform of leader tracing and through the
\* transform of view segmentation
TraceTransform ==
  /\ pc = "kx_call"
  /\ xf' = [xf EXCEPT
              !.q = koyafuse_to_visual(xf.p[1], xf.p[2], xf.rot, xf.mw),
              !.r = _to_visual(xf.p[1], xf.p[2], xf.rot, xf.mw, xf.mh)]
  /\ pc' = "kx_done"
  /\ UNCHANGED <<doc, handle, raised, outputs>>

NextTrace == TraceTransform

SpecTrace == InitTrace /\ [][NextTrace]_vars

\* C28: the transform used by leader tracing maps every mediabox point to
\* the visual point that the transform of view segmentation gives, for
\* every rotation and page size
C28_LeaderTransformEqualsViewTransform ==
  pc = "kx_done" => xf.q = xf.r

\* the same on the pages where the two are given the same information:
\* rotation 0 or 270, or a square media box
LeaderTransformOnUnturnedOrSquarePages ==
  pc = "kx_done" /\ (xf.rot \in {0, 270} \/ xf.mw = xf.mh) => xf.q = xf.r

\* a page turned by 90 or 180 whose width and height differ
C28_OblongTurnedPage ==
  pc = "kx_done" /\ xf.rot \in {90, 180} /\ xf.mw # xf.mh /\ xf.q # xf.r

\* ------------------------------------------------------------------------
\* The ridge beam and the frames (SpecRecon)
\* ------------------------------------------------------------------------

RidgeBeam ==
  Val(structural_model).members[CHOOSE i \in MembersOfType("RIDGE_BEAM") : TRUE]

LastXPosition ==
  Val(structural_model).x_grid_positions[
    Len(Val(structural_model).x_grid_positions)]

FramesLength ==
  Val(structural_model).bay_pitch * Val(structural_model).bay_count

\* C29: in every StructuralModel the ridge beam ends at the last X grid
\* position, bay_pitch * bay_count, and envelope.length is
\* bay_pitch * bay_count, also when the matching result has its own length
C29_RidgeBeamSpansTheFrames ==
  Reconstructed =>
    /\ LastXPosition = FramesLength
    /\ RidgeBeam.end.x = LastXPosition
    /\ Val(structural_model).envelope.length = FramesLength

\* C29 as the code has it: the ridge beam ends at envelope.length, which is
\* the length of the matching result when it has one and
\* bay_pitch * bay_count otherwise
RidgeBeamSpansEnvelopeLength ==
  Reconstructed =>
    /\ LastXPosition = FramesLength
    /\ RidgeBeam.start.x = 0
    /\ RidgeBeam.end.x = Val(structural_model).envelope.length
    /\ Val(structural_model).envelope.length =
         IF Val(matching).length = None THEN FramesLength
         ELSE Val(Val(matching).length) * Unit
    /\ (Val(matching).length = None
          \/ Val(Val(matching).length) * Unit = FramesLength)
         => RidgeBeam.end.x = LastXPosition

\* a matching result whose own length is not bay_pitch * bay_count was
\* reconstructed: the ridge beam ends off the last frame
C29_Witness ==
  /\ Reconstructed
  /\ Val(matching).length # None
  /\ Val(structural_model).bay_count >= 1
  /\ RidgeBeam.end.x # LastXPosition
  /\ RidgeBeam.end.x = Val(Val(matching).length) * Unit

\* a matching result without a length was reconstructed
C29_DerivedLength ==
  /\ Reconstructed
  /\ Val(matching).length = None
  /\ Val(structural_model).bay_count >= 1
  /\ RidgeBeam.end.x = LastXPosition

\* ------------------------------------------------------------------------
\* run_matching on dimension lists that mix PITCH and REPEAT entries of
\* different values in every order; the plan carries no line, so the
\* length does not come from the floor-plan match
\* ------------------------------------------------------------------------

ChainPool ==
  { MDim(3000, "REPEAT", None, "FLOOR_PLAN", <<200, 40>>),
    MDim(3000, "REPEAT", Some(4), "FLOOR_PLAN", <<200, 50>>),
    MDim(2000, "REPEAT", Some(5), "FLOOR_PLAN", <<200, 60>>),
    MDim(2000, "PITCH", None, "FLOOR_PLAN", <<200, 70>>),
    MDim(3000, "PITCH", None, "ELEVATION", <<400, 500>>) }

MaxChainDims == 3

\* the lists of up to MaxChainDims different entries of the pool
ChainLists ==
  {ds \in SeqUpTo(ChainPool, MaxChainDims) :
     \A i, j \in 1..Len(ds) : ds[i] = ds[j] => i = j}

InitChain ==
  /\ pc = "m_call"
  /\ \E g \in MatchGrids \ {None}, ds \in ChainLists :
       \E plan \in PlanViews(<<>>, <<>>) :
         doc = [rot |-> 0, grid |-> g,
                views |-> plan \o
                  << MView("ELEVATION", BBox(0, 300, 800, 600), None, <<>>,
                           XNames, <<>>) >>,
                dimensions |-> ds]
  /\ matching = None
  /\ grid = None
  /\ dimensions = <<>>
  /\ views = <<>>
  /\ handle = "none"
  /\ raised = ""
  /\ heights = <<>>
  /\ quality = None
  /\ structural_model = None
  /\ quantity_takeoff = None
  /\ catalog_map = {}
  /\ leader = NoLeader
  /\ xf = NoXf

SpecChain == InitChain /\ [][NextMatch]_vars

\* the length was computed from the repeat chain with an explicit count
LengthFromCountedRepeat ==
  /\ MatchingDone
  /\ XMatch = None \/ XMatchRejected
  /\ CountedRepeats # <<>>

PitchesAndRepeats ==
  SelectSeq(doc.dimensions, LAMBDA d : d.dim_type \in {"REPEAT", "PITCH"})

\* C30: when the length is pitch * k from the repeat chain with an explicit
\* count, that pitch is the reported bay_pitch and k the reported
\* bay_count: length = bay_pitch * bay_count
C30_LengthIsBayPitchTimesBayCount ==
  LengthFromCountedRepeat =>
    /\ Val(matching).bay_pitch # None
    /\ Val(matching).bay_count # None
    /\ Val(matching).length
         = Some(Val(Val(matching).bay_pitch) * Val(Val(matching).bay_count))

\* what the code computes: the value of the first PITCH or REPEAT times the
\* count of the first counted REPEAT, the latter being the bay_count
LengthIsFirstValueTimesBayCount ==
  LengthFromCountedRepeat =>
    /\ Val(matching).bay_count = CountedRepeats[1].repeat_count
    /\ Val(matching).length
         = Some(PitchesAndRepeats[1].value * Val(Val(matching).bay_count))

\* C30 holds of the lists whose first PITCH or REPEAT is a PITCH
LengthIsProductWhenPitchComesFirst ==
  LengthFromCountedRepeat /\ PitchesAndRepeats[1].dim_type = "PITCH" =>
    Val(matching).length
      = Some(Val(Val(matching).bay_pitch) * Val(Val(matching).bay_count))

\* a REPEAT of 3000 without count, then @2000 and 2000 x 5
C30_MixedValues ==
  /\ LengthFromCountedRepeat
  /\ Val(matching).bay_pitch = Some(2000)
  /\ Val(matching).bay_count = Some(5)
  /\ Val(matching).length = Some(15000)

====
